---- MODULE Spec2Model ----
(***************************************************************************)
(* coffi: a configuration-file loader.  loadConfig(name | options) looks   *)
(* for a configuration in three tiers: a property of the nearest           *)
(* package.json, a preferred path, and an upward directory walk that       *)
(* tries name+ext for each extension in priority order.                    *)
(*                                                                         *)
(* The repository holds several variants of the permissive loader:         *)
(*   "index_v1"  src/src/index.ts:1-117    preferred path + existsSync walk*)
(*   "part_003"  src/unnamed/part_003      three tiers, extension retry,   *)
(*                                         every failure caught            *)
(*   "part_004"  src/unnamed/part_004      three tiers, cleanJson          *)
(*               (src/src/index.ts:220-468 is part_004 without cleanJson)  *)
(* The variant is a variable fixed by Init; every operator that differs    *)
(* between the variants takes it as its first argument.                    *)
(*                                                                         *)
(* The filesystem is a single chain of directories 0 (the root) .. MaxDir; *)
(* a directory is its distance from the root.                              *)
(***************************************************************************)
EXTENDS Integers, Sequences, FiniteSets, TLC

VARIABLES variant, scope, fs, mtime, cache, phase, call, args, result, error, log, loop

vars == <<variant, scope, fs, mtime, cache, phase, call, args, result, error, log, loop>>

(***************************************************************************)
(* Bounds of the model.                                                    *)
(***************************************************************************)
\* Deepest directory of the chain: directories are 0 (root) .. MaxDir.
MaxDir == 1
\* Largest explicit maxDepth option a call passes (besides leaving it unset).
MaxDepthArg == 2
\* Files the environment creates when the directory walk is exercised.
MaxWalkFiles == 3
\* Files the environment creates when the three tiers are exercised.
MaxTierFiles == 2
\* Times the environment modifies or deletes one file.
MaxMtime == 2
\* Characters of the text handed to cleanJson.
MaxLen == 4

(***************************************************************************)
(* Optional values: an unset option, a null filepath.                      *)
(***************************************************************************)
None == <<>>
Some(x) == <<x>>
IsSome(o) == Len(o) = 1
IsNone(o) == Len(o) = 0
Get(o) == o[1]

(***************************************************************************)
(* JavaScript values, as far as the loader inspects them.                  *)
(***************************************************************************)
JSNull == [t |-> "null", v |-> <<>>]
JSUndefined == [t |-> "undefined", v |-> <<>>]
\* A plain object; origin names the file it was written in, props its keys.
JSObject(origin, props) == [t |-> "object", v |-> <<>>, origin |-> origin, props |-> props]
\* The namespace object of an imported module.
JSModuleNamespace(origin) == [t |-> "namespace", v |-> <<>>, origin |-> origin]
\* A producer function returning ret; JSThrowingFunction throws when called.
JSFunction(ret) == [t |-> "function", v |-> <<ret>>]
JSThrowingFunction == [t |-> "function", v |-> <<>>]
\* A promise that resolves to val; JSRejectedPromise rejects.
JSPromise(val) == [t |-> "promise", v |-> <<val>>]
JSRejectedPromise == [t |-> "promise", v |-> <<>>]

\* The primitives false, 0 and "".
JSFalse == [t |-> "boolean", v |-> <<>>, s |-> "false"]
JSZero == [t |-> "number", v |-> <<>>, s |-> "0"]
JSEmptyString == [t |-> "string", v |-> <<>>, s |-> ""]

\* JavaScript truthiness: of the values above null, undefined, false, 0 and
\* "" are falsy.
Truthy(val) ==
    /\ val.t \notin {"null", "undefined"}
    /\ val \notin {JSFalse, JSZero, JSEmptyString}

(***************************************************************************)
(* Paths.  A path is [abs, dir, base, ext]: an absolute path names the     *)
(* file base+ext of directory dir; a relative path (abs = FALSE, dir = 0)  *)
(* names base+ext relative to whatever it is resolved against.             *)
(***************************************************************************)
Dirs == 0..MaxDir

\* process.cwd(): the process runs in the deepest directory.
ProcessCwd == MaxDir

\* node:path dirname on a directory: the parent, the root being its own parent.
dirname(dir) == IF dir = 0 THEN 0 ELSE dir - 1

\* node:path join(currentDir, filename).
join(dir, filename) == [abs |-> TRUE, dir |-> dir, base |-> filename.base, ext |-> filename.ext]

\* node:path resolve(cwd, p): p itself when absolute, else p under cwd.
resolve(cwd, p) == IF p.abs THEN p ELSE [p EXCEPT !.abs = TRUE, !.dir = cwd]

\* node:path extname(p): "" for an extension-less path.
extname(p) == p.ext

\* `${resolvedPath}${ext}`
withExt(p, ext) == [p EXCEPT !.ext = ext]

RelativePath(base, ext) == [abs |-> FALSE, dir |-> 0, base |-> base, ext |-> ext]

(***************************************************************************)
(* The filesystem: fs maps every slot [dir, base, ext] to a file content   *)
(* or to Absent.                                                           *)
(***************************************************************************)
Absent == [type |-> "absent"]

FileNames ==
    { [base |-> "config", ext |-> ".ts"], [base |-> "config", ext |-> ".js"],
      [base |-> "config", ext |-> ".json"], [base |-> "package", ext |-> ".json"] }

\* The entry "." of a directory, which holds what is special of the
\* directory itself: nothing, or that it cannot be listed.
DirEntryName == [base |-> ".", ext |-> ""]
DirEntry(dir) == [abs |-> TRUE, dir |-> dir, base |-> ".", ext |-> ""]

Slots ==
    { [dir |-> d, base |-> f.base, ext |-> f.ext] : d \in Dirs, f \in FileNames \cup {DirEntryName} }

SlotOf(p) == [dir |-> p.dir, base |-> p.base, ext |-> p.ext]

FileAt(files, p) == IF SlotOf(p) \in DOMAIN files THEN files[SlotOf(p)] ELSE Absent

\* A directory the process may not read: listing it fails with EACCES, the
\* files in it can still be opened.
Unreadable == [type |-> "directory", readable |-> FALSE]

\* A module file: whether importing it succeeds, and its default export.
ModuleFile(loads, hasDefault, default) ==
    [type |-> "module", loads |-> loads, hasDefault |-> hasDefault, default |-> default]

\* A JSON file: its text is strict JSON, JSON with comments or trailing
\* commas ("lenient"), or no JSON at all ("invalid"); doc is the document.
JsonFile(syntax, doc) == [type |-> "json", syntax |-> syntax, doc |-> doc]

(***************************************************************************)
(* Platform services the loader calls.                                     *)
(***************************************************************************)
\* _exists(filepath): existsSync, relative paths being taken from process.cwd().
_exists(files, p) == FileAt(files, resolve(ProcessCwd, p)) # Absent

\* readdirSync(currentDir) throws.
listingFails(files, dir) == FileAt(files, DirEntry(dir)) = Unreadable

\* readdirSync(currentDir) as the Set the walk builds from it.
readdirSync(files, dir) ==
    { [base |-> s.base, ext |-> s.ext] :
        s \in { t \in DOMAIN files : t.dir = dir /\ t.base # "." /\ files[t] # Absent } }

\* Outcome of a step that may throw (or, for an async function, reject).
Ok(val) == [threw |-> FALSE, value |-> val]
Thrown == [threw |-> TRUE, value |-> JSUndefined]

\* cleanJson(json): comments and trailing commas removed, so that lenient
\* text becomes strict JSON; text that is no JSON stays unparsable.
cleanJson(file) == IF file.syntax = "lenient" THEN [file EXCEPT !.syntax = "strict"] ELSE file

\* JSON.parse(text): the document of strict JSON, a SyntaxError otherwise.
JSON_parse(file) == IF file.syntax = "strict" THEN Ok(file.doc) ELSE Thrown

\* module.default || module
selectExport(module, origin) ==
    IF module.hasDefault /\ Truthy(module.default) THEN module.default
    ELSE JSModuleNamespace(origin)

\* A variant that calls what the producer returned as long as it is a function.
callWhileFunction(config) ==
    IF config.t = "function"
    THEN IF Len(config.v) = 0 THEN Thrown
         ELSE IF config.v[1].t = "function"
              THEN (IF Len(config.v[1].v) = 0 THEN Thrown ELSE Ok(config.v[1].v[1]))
              ELSE Ok(config.v[1])
    ELSE Ok(config)

\* if (typeof config === "function") config = config();
callIfFunction(config) ==
    IF config.t = "function"
    THEN IF Len(config.v) = 0 THEN Thrown ELSE Ok(config.v[1])
    ELSE Ok(config)

\* try { ... } catch { return null; } around a step.
nullIfThrown(outcome) == IF outcome.threw THEN Ok(JSNull) ELSE outcome

(***************************************************************************)
(* parseConfigFile: the value a file yields, null when it is unusable.     *)
(* The outcome is Ok(value) when the async function resolves and Thrown    *)
(* when it rejects.                                                        *)
(***************************************************************************)
\* if (config instanceof Promise) return await config, inside try/catch:
\* a rejection is caught and becomes null.
awaitInsideTry(config) ==
    IF config.t = "promise"
    THEN IF Len(config.v) = 0 THEN Ok(JSNull) ELSE Ok(config.v[1])
    ELSE Ok(config)

\* if (config instanceof Promise) return config: the async function settles
\* as the promise does, after the try block has been left, so a rejection is
\* not caught and the function rejects.
returnFromAsync(config) ==
    IF config.t = "promise"
    THEN IF Len(config.v) = 0 THEN Thrown ELSE Ok(config.v[1])
    ELSE Ok(config)

\* The executable-module branch of part_003, after the producer was called.
settle_part_003(called) == IF called.threw THEN Ok(JSNull) ELSE awaitInsideTry(called.value)

\* The executable-module branch of part_004 and index_v1, after the producer
\* was called.
settle_part_004(called) == IF called.threw THEN Ok(JSNull) ELSE returnFromAsync(called.value)

\* const module = await import(...); let config = module.default || module; ...
loadModule(v, file, origin) ==
    IF ~file.loads THEN Ok(JSNull)
    ELSE IF v = "part_003" THEN settle_part_003(callIfFunction(selectExport(file, origin)))
    ELSE settle_part_004(callIfFunction(selectExport(file, origin)))

\* filepath.slice(filepath.lastIndexOf(".")).toLowerCase(): the extension; for
\* a path without "." it is the last character, which is never ".json".
sliceExt(p) == IF p.ext = "" THEN "g" ELSE p.ext

\* part_003: the path is made absolute, the extension is extname's, JSON text
\* is parsed as it is, and every step has its own try/catch.
parseConfigFile_part_003(files, filepath) ==
    IF ~_exists(files, resolve(ProcessCwd, filepath)) THEN Ok(JSNull)
    ELSE IF extname(resolve(ProcessCwd, filepath)) = ".json"
    THEN nullIfThrown(JSON_parse(FileAt(files, resolve(ProcessCwd, filepath))))
    ELSE loadModule("part_003", FileAt(files, resolve(ProcessCwd, filepath)),
                    SlotOf(resolve(ProcessCwd, filepath)))

\* part_004: JSON text goes through cleanJson before JSON.parse.
parseConfigFile_part_004(files, filepath) ==
    IF ~_exists(files, filepath) THEN Ok(JSNull)
    ELSE IF sliceExt(filepath) = ".json"
    THEN nullIfThrown(JSON_parse(cleanJson(FileAt(files, resolve(ProcessCwd, filepath)))))
    ELSE loadModule("part_004", FileAt(files, resolve(ProcessCwd, filepath)),
                    SlotOf(resolve(ProcessCwd, filepath)))

\* index_v1: JSON text is parsed as it is.  import(filepath) resolves a
\* relative specifier against the importing module, not against the working
\* directory, so only an absolute path loads a module.
parseConfigFile_index_v1(files, filepath) ==
    IF ~_exists(files, filepath) THEN Ok(JSNull)
    ELSE IF sliceExt(filepath) = ".json"
    THEN nullIfThrown(JSON_parse(FileAt(files, resolve(ProcessCwd, filepath))))
    ELSE IF ~filepath.abs THEN Ok(JSNull)
    ELSE loadModule("index_v1", FileAt(files, filepath), SlotOf(filepath))

parseConfigFile(v, files, filepath) ==
    CASE v = "part_003" -> parseConfigFile_part_003(files, filepath)
      [] v = "part_004" -> parseConfigFile_part_004(files, filepath)
      [] v = "index_v1" -> parseConfigFile_index_v1(files, filepath)

(***************************************************************************)
(* loadConfigInternal.  Every tier yields an outcome                       *)
(*   [status, config, filepath, log]                                       *)
(* with status "found" (the tier returns {config, filepath}), "none" (the  *)
(* tier yields nothing and the next one is tried) or "threw" (an exception *)
(* leaves the tier).  log lists, in order, the directory listings and the  *)
(* parse attempts the code makes.                                          *)
(***************************************************************************)
\* An error value: its name and what its message says.
JSError(name, message) == [name |-> name, message |-> message]

Found(config, filepath, events) ==
    [status |-> "found", config |-> config, filepath |-> Some(filepath), error |-> None,
     log |-> events]
Nothing(events) ==
    [status |-> "none", config |-> JSNull, filepath |-> None, error |-> None, log |-> events]
\* An exception leaves the tier carrying err.
ThrewError(err, events) ==
    [status |-> "threw", config |-> JSNull, filepath |-> None, error |-> Some(err),
     log |-> events]
\* The rejection of a candidate's promise leaves the tier as it is.
Threw(events) == ThrewError(JSError("Error", [text |-> "rejected"]), events)

\* An outcome with events put in front of its log.
After(events, outcome) == [outcome EXCEPT !.log = events \o @]

ParseEvent(p) == [op |-> "parse", path |-> p]
ListEvent(dir) == [op |-> "readdir", dir |-> dir]

\* A variant that tests config !== undefined in place of config !== null.
returnIfDefined(parsed, filepath, otherwise) ==
    IF parsed.threw THEN Threw(<<ParseEvent(filepath)>>)
    ELSE IF parsed.value # JSUndefined THEN Found(parsed.value, filepath, <<ParseEvent(filepath)>>)
    ELSE After(<<ParseEvent(filepath)>>, otherwise)

\* A variant that tests the truthiness of config in place of config !== null.
returnIfTruthy(parsed, filepath, otherwise) ==
    IF parsed.threw THEN Threw(<<ParseEvent(filepath)>>)
    ELSE IF Truthy(parsed.value) THEN Found(parsed.value, filepath, <<ParseEvent(filepath)>>)
    ELSE After(<<ParseEvent(filepath)>>, otherwise)

\* const config = await parseConfigFile(filepath);
\* if (config !== null) return { config, filepath };
\* and otherwise whatever the code does next.
returnIfUsable(parsed, filepath, otherwise) ==
    IF parsed.threw THEN Threw(<<ParseEvent(filepath)>>)
    ELSE IF parsed.value # JSNull THEN Found(parsed.value, filepath, <<ParseEvent(filepath)>>)
    ELSE After(<<ParseEvent(filepath)>>, otherwise)

\* findPackageJson(cwd, maxDepth): the nearest package.json, walking upward.
RECURSIVE findPackageJsonFrom(_, _, _, _)
findPackageJsonFrom(files, currentDir, currentDepth, maxDepth) ==
    IF ~(currentDepth < maxDepth) THEN None
    ELSE IF _exists(files, join(currentDir, [base |-> "package", ext |-> ".json"]))
    THEN Some(join(currentDir, [base |-> "package", ext |-> ".json"]))
    ELSE IF dirname(currentDir) = currentDir THEN None
    ELSE findPackageJsonFrom(files, dirname(currentDir), currentDepth + 1, maxDepth)

findPackageJson(files, cwd, maxDepth) == findPackageJsonFrom(files, cwd, 0, maxDepth)

\* typeof packageJson === "object"
TypeofObject(val) == val.t \in {"object", "namespace", "promise", "null"}

\* packageJsonProperty in packageJson
HasProperty(val, key) == val.t = "object" /\ key \in DOMAIN val.props

\* A variant that also requires the property's value to be truthy.
extractPropertyIfTruthy(parsed, packageJsonPath, packageJsonProperty) ==
    IF parsed.threw THEN Threw(<<ParseEvent(packageJsonPath)>>)
    ELSE IF /\ Truthy(parsed.value)
            /\ TypeofObject(parsed.value)
            /\ HasProperty(parsed.value, packageJsonProperty)
            /\ Truthy(parsed.value.props[packageJsonProperty])
    THEN Found(parsed.value.props[packageJsonProperty], packageJsonPath,
               <<ParseEvent(packageJsonPath)>>)
    ELSE Nothing(<<ParseEvent(packageJsonPath)>>)

\* if (packageJson && typeof packageJson === "object" &&
\*     packageJsonProperty in packageJson) return { ... }
extractProperty(parsed, packageJsonPath, packageJsonProperty) ==
    IF parsed.threw THEN Threw(<<ParseEvent(packageJsonPath)>>)
    ELSE IF /\ Truthy(parsed.value)
            /\ TypeofObject(parsed.value)
            /\ HasProperty(parsed.value, packageJsonProperty)
    THEN Found(parsed.value.props[packageJsonProperty], packageJsonPath,
               <<ParseEvent(packageJsonPath)>>)
    ELSE Nothing(<<ParseEvent(packageJsonPath)>>)

\* A variant that throws when no package.json is found.
manifestAtOrThrow(v, files, packageJsonPath, packageJsonProperty) ==
    IF IsNone(packageJsonPath) THEN Threw(<<>>)
    ELSE extractProperty(parseConfigFile(v, files, Get(packageJsonPath)),
                         Get(packageJsonPath), packageJsonProperty)

\* if (packageJsonPath) { const packageJson = await parseConfigFile(...); ... }
manifestAt(v, files, packageJsonPath, packageJsonProperty) ==
    IF IsNone(packageJsonPath) THEN Nothing(<<>>)
    ELSE extractProperty(parseConfigFile(v, files, Get(packageJsonPath)),
                         Get(packageJsonPath), packageJsonProperty)

\* The manifest tier: if (packageJsonProperty) { ... }; index_v1 has none.
manifestTier(v, files, cwd, maxDepth, packageJsonProperty) ==
    IF v = "index_v1" \/ IsNone(packageJsonProperty) THEN Nothing(<<>>)
    ELSE manifestAt(v, files, findPackageJson(files, cwd, maxDepth), Get(packageJsonProperty))

\* part_003: for (const ext of extensions) over `${resolvedPath}${ext}`.
RECURSIVE retryWithExtensions(_, _, _, _)
retryWithExtensions(files, resolvedPath, extensions, i) ==
    IF i > Len(extensions) THEN Nothing(<<>>)
    ELSE returnIfUsable(parseConfigFile_part_003(files, withExt(resolvedPath, extensions[i])),
                        withExt(resolvedPath, extensions[i]),
                        retryWithExtensions(files, resolvedPath, extensions, i + 1))

\* The preferred-path tier of part_003: the exact path, then, for a path
\* without extension, the path with each extension.
preferredTier_part_003(files, extensions, resolvedPath) ==
    returnIfUsable(parseConfigFile_part_003(files, resolvedPath), resolvedPath,
                   IF extname(resolvedPath) = ""
                   THEN retryWithExtensions(files, resolvedPath, extensions, 1)
                   ELSE Nothing(<<>>))

\* The preferred-path tier of part_004: one parse of resolve(cwd, preferredPath),
\* outside any try block.
preferredTier_part_004(files, resolvedPath) ==
    returnIfUsable(parseConfigFile_part_004(files, resolvedPath), resolvedPath, Nothing(<<>>))

\* The preferred-path tier of index_v1: preferredPath is parsed and returned
\* as it was given.
preferredTier_index_v1(files, preferredPath) ==
    returnIfUsable(parseConfigFile_index_v1(files, preferredPath), preferredPath, Nothing(<<>>))

\* if (preferredPath) { ... }
preferredTier(v, files, extensions, cwd, preferredPath) ==
    IF IsNone(preferredPath) THEN Nothing(<<>>)
    ELSE CASE v = "part_003" ->
                preferredTier_part_003(files, extensions, resolve(cwd, Get(preferredPath)))
           [] v = "part_004" -> preferredTier_part_004(files, resolve(cwd, Get(preferredPath)))
           [] v = "index_v1" -> preferredTier_index_v1(files, Get(preferredPath))

(***************************************************************************)
(* The directory walk.                                                     *)
(***************************************************************************)
\* Whether the walk takes `${name}${ext}` of currentDir for a candidate:
\* membership in the directory listing, or existsSync in index_v1.
candidatePresent(v, files, currentDir, filename) ==
    IF v = "index_v1" THEN _exists(files, join(currentDir, filename))
    ELSE filename \in readdirSync(files, currentDir)

\* for (const ext of extensions) { ... } from the i-th extension on.
RECURSIVE scanExtensions(_, _, _, _, _, _)
scanExtensions(v, files, name, extensions, currentDir, i) ==
    IF i > Len(extensions) THEN Nothing(<<>>)
    ELSE IF ~candidatePresent(v, files, currentDir, [base |-> name, ext |-> extensions[i]])
    THEN scanExtensions(v, files, name, extensions, currentDir, i + 1)
    ELSE returnIfUsable(
             parseConfigFile(v, files, join(currentDir, [base |-> name, ext |-> extensions[i]])),
             join(currentDir, [base |-> name, ext |-> extensions[i]]),
             scanExtensions(v, files, name, extensions, currentDir, i + 1))

\* A variant without the try block around the level.
rethrow(outcome) == outcome

\* try { ... } catch (error) {} around the listing and the for loop: an
\* exception ends the level with nothing.
swallow(outcome) == IF outcome.status = "threw" THEN Nothing(outcome.log) ELSE outcome

\* const files = readdirSync(currentDir), which may throw, and then the for
\* loop over the extensions.
listThenScan(v, files, name, extensions, currentDir) ==
    IF listingFails(files, currentDir)
    THEN ThrewError(JSError("Error", [text |-> "EACCES"]), <<>>)
    ELSE scanExtensions(v, files, name, extensions, currentDir, 1)

\* One iteration of the while loop up to the parent computation; index_v1
\* has no try block and lists nothing.
scanLevel(v, files, name, extensions, currentDir) ==
    IF v = "index_v1" THEN scanExtensions(v, files, name, extensions, currentDir, 1)
    ELSE After(<<ListEvent(currentDir)>>,
               swallow(listThenScan(v, files, name, extensions, currentDir)))

RECURSIVE walk(_, _, _, _, _, _, _)

\* A variant that goes to the parent without currentDepth++.
nextLevelKeepsDepth(level, v, files, name, extensions, currentDir, currentDepth, maxDepth) ==
    IF level.status # "none" THEN level
    ELSE IF dirname(currentDir) = currentDir THEN level
    ELSE After(level.log,
               walk(v, files, name, extensions, dirname(currentDir), currentDepth, maxDepth))

\* The end of an iteration: return, break at the root, or go to the parent
\* with currentDepth++.
nextLevel(level, v, files, name, extensions, currentDir, currentDepth, maxDepth) ==
    IF level.status # "none" THEN level
    ELSE IF dirname(currentDir) = currentDir THEN level
    ELSE After(level.log,
               walk(v, files, name, extensions, dirname(currentDir), currentDepth + 1, maxDepth))

\* A variant with the inclusive condition currentDepth <= maxDepth.
withinDepthInclusive(currentDepth, maxDepth) == currentDepth <= maxDepth

\* The condition of while (currentDepth < maxDepth).
withinDepth(currentDepth, maxDepth) == currentDepth < maxDepth

\* while (currentDepth < maxDepth) { ... } return { config: null, filepath: null };
walk(v, files, name, extensions, currentDir, currentDepth, maxDepth) ==
    IF ~withinDepth(currentDepth, maxDepth) THEN Nothing(<<>>)
    ELSE nextLevel(scanLevel(v, files, name, extensions, currentDir),
                   v, files, name, extensions, currentDir, currentDepth, maxDepth)

(***************************************************************************)
(* The strict variant (src/src/index.ts:119-218): a walk alone, which      *)
(* throws ConfigLoadError where the permissive variants return null.       *)
(***************************************************************************)
\* new ConfigLoadError(`Failed to load config from ${filepath}: ...`)
LoadFailed(filepath) ==
    JSError("ConfigLoadError", [text |-> "Failed to load config from", filepath |-> filepath])

\* new ConfigLoadError(`Could not find config file '${name}' with extensions
\* [${extensions.join(", ")}] within ${maxDepth} directories`)
NotFound(name, extensions, maxDepth) ==
    JSError("ConfigLoadError",
            [text |-> "Could not find config file", name |-> name,
             extensions |-> extensions, maxDepth |-> maxDepth])

\* if (config instanceof Promise) config = await config;
awaitConfig(config) ==
    IF config.t = "promise"
    THEN IF Len(config.v) = 0 THEN Thrown ELSE Ok(config.v[1])
    ELSE Ok(config)

\* The producer was called: an exception of it, or what is there awaited.
settle_strict(called) == IF called.threw THEN Thrown ELSE awaitConfig(called.value)

\* The body of the try block: JSON.parse of the text for ".json", else the
\* module's export, called if a function, awaited if a promise.
loadSelected(file, ext, origin) ==
    IF ext = ".json" THEN (IF file.type = "json" THEN JSON_parse(file) ELSE Thrown)
    ELSE IF file.type # "module" THEN Thrown
    ELSE IF ~file.loads THEN Thrown
    ELSE settle_strict(callIfFunction(selectExport(file, origin)))

\* A variant that takes a file that fails to load for unusable and goes on.
returnOrSkip(loaded, filepath) ==
    IF loaded.threw THEN Nothing(<<ParseEvent(filepath)>>)
    ELSE Found(loaded.value, filepath, <<ParseEvent(filepath)>>)

\* return { config, filepath } or, from the catch block, throw ConfigLoadError.
returnOrThrow(loaded, filepath) ==
    IF loaded.threw THEN ThrewError(LoadFailed(filepath), <<ParseEvent(filepath)>>)
    ELSE Found(loaded.value, filepath, <<ParseEvent(filepath)>>)

\* for (const ext of extensions) { if (_exists(filepath)) { ... } } from the
\* i-th extension on.
RECURSIVE scanExtensions_strict(_, _, _, _, _)
scanExtensions_strict(files, name, extensions, currentDir, i) ==
    IF i > Len(extensions) THEN Nothing(<<>>)
    ELSE IF ~_exists(files, join(currentDir, [base |-> name, ext |-> extensions[i]]))
    THEN scanExtensions_strict(files, name, extensions, currentDir, i + 1)
    ELSE returnOrThrow(
             loadSelected(FileAt(files, join(currentDir, [base |-> name, ext |-> extensions[i]])),
                          extensions[i],
                          SlotOf(join(currentDir, [base |-> name, ext |-> extensions[i]]))),
             join(currentDir, [base |-> name, ext |-> extensions[i]]))

RECURSIVE walk_strict(_, _, _, _, _, _)

\* The end of an iteration of the strict walk.
nextLevel_strict(level, files, name, extensions, currentDir, currentDepth, maxDepth) ==
    IF level.status # "none" THEN level
    ELSE IF dirname(currentDir) = currentDir THEN level
    ELSE After(level.log,
               walk_strict(files, name, extensions, dirname(currentDir), currentDepth + 1,
                           maxDepth))

\* while (currentDepth < maxDepth) { ... }
walk_strict(files, name, extensions, currentDir, currentDepth, maxDepth) ==
    IF ~(currentDepth < maxDepth) THEN Nothing(<<>>)
    ELSE nextLevel_strict(scanExtensions_strict(files, name, extensions, currentDir, 1),
                          files, name, extensions, currentDir, currentDepth, maxDepth)

\* A variant that returns the not-found result of the permissive loader.
nullIfNothing(walked, name, extensions, maxDepth) == walked

\* After the loop: throw new ConfigLoadError(`Could not find ...`).
throwIfNothing(walked, name, extensions, maxDepth) ==
    IF walked.status = "none" THEN ThrewError(NotFound(name, extensions, maxDepth), walked.log)
    ELSE walked

loadConfigInternal_strict(files, name, extensions, cwd, maxDepth) ==
    throwIfNothing(walk_strict(files, name, extensions, cwd, 0, maxDepth),
                   name, extensions, maxDepth)

\* A tier's outcome if it ends the call, else the outcome of what follows.
orElseTier(outcome, tier, following) ==
    IF outcome.status # "none" THEN outcome @@ [tier |-> tier]
    ELSE After(outcome.log, following)

\* loadConfigInternal(name, extensions, cwd, maxDepth, preferredPath,
\* packageJsonProperty); tier names the tier that ended the call.
loadConfigInternal(v, files, a) ==
    IF v = "strict"
    THEN loadConfigInternal_strict(files, a.name, a.extensions, a.cwd, a.maxDepth)
             @@ [tier |-> "walk"]
    ELSE
    orElseTier(manifestTier(v, files, a.cwd, a.maxDepth, a.packageJsonProperty), "manifest",
        orElseTier(preferredTier(v, files, a.extensions, a.cwd, a.preferredPath), "preferred",
            walk(v, files, a.name, a.extensions, a.cwd, 0, a.maxDepth) @@ [tier |-> "walk"]))

(***************************************************************************)
(* The text of a JSON file: a sequence of characters.  cleanJson on text,  *)
(* with stripJsonComments (strip-json-comments 5, default options: a       *)
(* comment is replaced by blanks) and String.prototype.replace and trim.   *)
(***************************************************************************)
Quote == "\""

\* \s of a regular expression, trimmed by trim.
Whitespace == {" ", "\n", "\r", "\t"}

\* json[index], undefined beyond the end.
charAt(json, index) == IF index < Len(json) THEN json[index + 1] ELSE "undefined"

\* json.slice(start, end)
slice(json, start, end) == SubSeq(json, start + 1, end)

\* strip: string.slice(start, end).replace(/\S/g, ' ')
stripWithWhitespace(json, start, end) ==
    [i \in 1..(end - start) |->
        IF json[start + i] \in Whitespace THEN json[start + i] ELSE " "]

\* isEscaped(jsonString, quotePosition): an odd number of backslashes before.
RECURSIVE backslashCount(_, _)
backslashCount(json, index) ==
    IF index >= 0 /\ charAt(json, index) = "\\" THEN 1 + backslashCount(json, index - 1) ELSE 0

isEscaped(json, quotePosition) == backslashCount(json, quotePosition - 1) % 2 = 1

\* The loop of stripJsonComments at index; comment is "no", "single", "multi".
RECURSIVE stripLoop(_, _, _, _, _, _)
stripStep(json, index, isInsideString, comment, offset, buffer, pair) ==
    IF isInsideString
    THEN stripLoop(json, index + 1, isInsideString, comment, offset, buffer)
    ELSE IF comment = "no" /\ pair = <<"/", "/">>
    THEN stripLoop(json, index + 2, FALSE, "single", index, buffer \o slice(json, offset, index))
    ELSE IF comment = "single" /\ pair = <<"\r", "\n">>
    THEN stripLoop(json, index + 2, FALSE, "no", index + 1,
                   buffer \o stripWithWhitespace(json, offset, index + 1))
    ELSE IF comment = "single" /\ pair[1] = "\n"
    THEN stripLoop(json, index + 1, FALSE, "no", index,
                   buffer \o stripWithWhitespace(json, offset, index))
    ELSE IF comment = "no" /\ pair = <<"/", "*">>
    THEN stripLoop(json, index + 2, FALSE, "multi", index, buffer \o slice(json, offset, index))
    ELSE IF comment = "multi" /\ pair = <<"*", "/">>
    THEN stripLoop(json, index + 2, FALSE, "no", index + 2,
                   buffer \o stripWithWhitespace(json, offset, index + 2))
    ELSE stripLoop(json, index + 1, FALSE, comment, offset, buffer)

stripLoop(json, index, isInsideString, comment, offset, buffer) ==
    IF index >= Len(json)
    THEN buffer \o (IF comment # "no"
                    THEN stripWithWhitespace(json, offset, Len(json))
                    ELSE slice(json, offset, Len(json)))
    ELSE stripStep(json, index,
                   IF comment = "no" /\ charAt(json, index) = Quote /\ ~isEscaped(json, index)
                   THEN ~isInsideString ELSE isInsideString,
                   comment, offset, buffer,
                   <<charAt(json, index), charAt(json, index + 1)>>)

stripJsonComments(json) == stripLoop(json, 0, FALSE, "no", 0, <<>>)

\* The end of the whitespace that starts at index.
RECURSIVE skipWhitespace(_, _)
skipWhitespace(s, index) ==
    IF charAt(s, index) \in Whitespace THEN skipWhitespace(s, index + 1) ELSE index

\* s.replace(/,\s*([}\]])/g, "$1") from index on: the matches from left to
\* right, none overlapping an earlier one.
RECURSIVE replaceFrom(_, _)
replaceFrom(s, index) ==
    IF index >= Len(s) THEN <<>>
    ELSE IF s[index + 1] = "," /\ charAt(s, skipWhitespace(s, index + 1)) \in {"}", "]"}
    THEN <<charAt(s, skipWhitespace(s, index + 1))>>
             \o replaceFrom(s, skipWhitespace(s, index + 1) + 1)
    ELSE <<s[index + 1]>> \o replaceFrom(s, index + 1)

replaceTrailingCommas(s) == replaceFrom(s, 0)

\* s.trim()
RECURSIVE trimEnd(_)
trimEnd(s) ==
    IF Len(s) > 0 /\ s[Len(s)] \in Whitespace THEN trimEnd(SubSeq(s, 1, Len(s) - 1)) ELSE s

trim(s) == trimEnd(slice(s, skipWhitespace(s, 0), Len(s)))

\* cleanJson(json) on the text.
cleanJsonText(json) == trim(replaceTrailingCommas(stripJsonComments(json)))

\* JSON.parse(text) on the text of a string, or of an array of such
\* documents: what is parsed, and where the rest starts.
Parsed(val, next) == [ok |-> TRUE, value |-> val, next |-> next]
SyntaxError == [ok |-> FALSE, value |-> JSUndefined, next |-> 0]
JSArray(elements) == [t |-> "array", v |-> elements]

RECURSIVE parseString(_, _, _)
parseString(s, index, chars) ==
    IF index >= Len(s) \/ s[index + 1] \in {"\n", "\r", "\t", "\\"} THEN SyntaxError
    ELSE IF s[index + 1] = Quote THEN Parsed([t |-> "string", v |-> <<>>, s |-> chars], index + 1)
    ELSE parseString(s, index + 1, Append(chars, s[index + 1]))

RECURSIVE parseValue(_, _)
RECURSIVE parseElements(_, _, _)
afterElement(s, elements, element, index) ==
    IF ~element.ok THEN SyntaxError
    ELSE IF charAt(s, index) = ","
    THEN parseElements(s, index + 1, Append(elements, element.value))
    ELSE IF charAt(s, index) = "]"
    THEN Parsed(JSArray(Append(elements, element.value)), index + 1)
    ELSE SyntaxError

nextAfter(s, element) == IF element.ok THEN skipWhitespace(s, element.next) ELSE 0

parseElement(s, elements, element) ==
    afterElement(s, elements, element, nextAfter(s, element))

parseElements(s, index, elements) == parseElement(s, elements, parseValue(s, index))

parseValueAt(s, index) ==
    IF charAt(s, index) = Quote THEN parseString(s, index + 1, <<>>)
    ELSE IF charAt(s, index) = "["
    THEN IF charAt(s, skipWhitespace(s, index + 1)) = "]"
         THEN Parsed(JSArray(<<>>), skipWhitespace(s, index + 1) + 1)
         ELSE parseElements(s, index + 1, <<>>)
    ELSE SyntaxError

parseValue(s, index) == parseValueAt(s, skipWhitespace(s, index))

wholeText(s, parsed) ==
    IF parsed.ok /\ skipWhitespace(s, parsed.next) = Len(s) THEN Ok(parsed.value) ELSE Thrown

JSON_parseText(s) == wholeText(s, parseValue(s, 0))

(***************************************************************************)
(* The result cache.  The repository's files under src/ hold no cache; it  *)
(* is modelled from the specification (4.4 steps 1 and 6, 4.5).            *)
(***************************************************************************)
\* The key of a request: all the fields that affect the outcome.
cacheKey(a) == a

\* CacheEntry { key, config, filepath, capturedMtime }
CacheEntry(key, config, filepath, capturedMtime) ==
    [key |-> key, config |-> config, filepath |-> filepath, capturedMtime |-> capturedMtime]

\* stat(filepath).mtime, or nothing when the file cannot be stat'ed.
stat(files, mt, filepath) ==
    IF _exists(files, filepath) THEN Some(mt[SlotOf(resolve(ProcessCwd, filepath))]) ELSE None

\* get(key): the entries stored under the key (one at most).
cacheGet(entries, key) == { e \in entries : e.key = key }

\* A variant that takes an entry for valid as long as its file is there.
entryValidWhileThere(e, files, mt) == IsSome(stat(files, mt, e.filepath))

\* An entry is valid iff its filepath can be stat'ed and the modification
\* time equals capturedMtime.
entryValid(e, files, mt) == stat(files, mt, e.filepath) = Some(e.capturedMtime)

\* The lookup hits: useCache, and a valid entry under the key.
cacheHit(entries, files, mt, key, useCache) ==
    useCache /\ \E e \in cacheGet(entries, key) : entryValid(e, files, mt)

\* Lazy eviction at lookup: an invalid entry under the key is dropped.
evict(entries, files, mt, key, useCache) ==
    IF useCache
    THEN { e \in entries : e.key # key \/ entryValid(e, files, mt) }
    ELSE entries

\* set(key, config, filepath) after a successful resolution, capturing the
\* modification time of the winning file.
cacheWrite(entries, files, mt, key, useCache, outcome) ==
    IF useCache /\ outcome.status = "found"
    THEN { e \in entries : e.key # key }
             \cup { CacheEntry(key, outcome.config, Get(outcome.filepath),
                               Get(stat(files, mt, Get(outcome.filepath)))) }
    ELSE entries

\* The outcome a hit returns: the cached pair, nothing touched.
cachedOutcome(e) == Found(e.config, e.filepath, <<>>) @@ [tier |-> "cache"]

(***************************************************************************)
(* loadConfig: the two call forms.  A call is [name, extensions, options],  *)
(* the arguments of loadConfig(name, extensions, options); extensions and  *)
(* every field of options is an optional value.  The same request in the   *)
(* object form is loadConfig({ name, extensions, ...options }).            *)
(***************************************************************************)
DEFAULT_EXTENSIONS == <<".ts", ".mts", ".cts", ".js", ".mjs", ".cjs", ".json">>

DEFAULT_MAX_DEPTH == 10

OrElse(option, default) == IF IsSome(option) THEN Get(option) ELSE default

\* { name, extensions, ...options }
SpreadOptions(c) == [name |-> c.name, extensions |-> c.extensions] @@ c.options

\* if (typeof nameOrOptions === "string") { ... }: the arguments the string
\* form passes to loadConfigInternal.  index_v1 reads no packageJsonProperty.
loadConfigByName(v, name, extensions, options) ==
    [ name |-> name,
      extensions |-> OrElse(extensions, DEFAULT_EXTENSIONS),
      cwd |-> OrElse(options.cwd, ProcessCwd),
      maxDepth |-> OrElse(options.maxDepth, DEFAULT_MAX_DEPTH),
      preferredPath |-> options.preferredPath,
      packageJsonProperty |-> IF v = "index_v1" THEN None ELSE options.packageJsonProperty ]

\* A variant whose object form has another default for maxDepth.
loadConfigByOptionsUnbounded(v, nameOrOptions) ==
    [ name |-> nameOrOptions.name,
      extensions |-> OrElse(nameOrOptions.extensions, DEFAULT_EXTENSIONS),
      cwd |-> OrElse(nameOrOptions.cwd, ProcessCwd),
      maxDepth |-> OrElse(nameOrOptions.maxDepth, DEFAULT_MAX_DEPTH + 1),
      preferredPath |-> nameOrOptions.preferredPath,
      packageJsonProperty |->
          IF v = "index_v1" THEN None ELSE nameOrOptions.packageJsonProperty ]

\* const { name, extensions: exts = DEFAULT_EXTENSIONS, ... } = nameOrOptions:
\* the arguments the object form passes to loadConfigInternal.
loadConfigByOptions(v, nameOrOptions) ==
    [ name |-> nameOrOptions.name,
      extensions |-> OrElse(nameOrOptions.extensions, DEFAULT_EXTENSIONS),
      cwd |-> OrElse(nameOrOptions.cwd, ProcessCwd),
      maxDepth |-> OrElse(nameOrOptions.maxDepth, DEFAULT_MAX_DEPTH),
      preferredPath |-> nameOrOptions.preferredPath,
      packageJsonProperty |->
          IF v = "index_v1" THEN None ELSE nameOrOptions.packageJsonProperty ]

(***************************************************************************)
(* The environment: the files that may be written and the calls made.      *)
(* scope selects the family of files and calls a specification explores:   *)
(* "walk" exercises the directory walk alone, "tiers" the three tiers,     *)
(* "parser" the ways a candidate file loads or fails to load, "strict" the *)
(* strict variant, "cache" the result cache, "text" cleanJson on texts,    *)
(* "climb" the loops that climb the directories, iteration by iteration,   *)
(* "listing" the walk among directories that cannot be listed, "retry" a   *)
(* preferred path in a directory the walk does not cover, "probe" the      *)
(* attempts of a call, each started and settled in a step of its own,      *)
(* "nullish" files that yield null, undefined or another falsy value.      *)
(***************************************************************************)
Variants == {"index_v1", "part_003", "part_004"}

\* The variants a scope exercises: "strict" exercises the strict variant.
\* The result cache is put in front of the loader of part_004; the loops
\* are followed iteration by iteration in part_004.
VariantsOf(sc) ==
    IF sc = "strict" THEN {"strict"}
    ELSE IF sc \in {"cache", "text", "climb"} THEN {"part_004"}
    ELSE IF sc \in {"listing", "probe"} THEN {"part_003", "part_004"}
    ELSE Variants

JSString(str) == [t |-> "string", v |-> <<>>, s |-> str]

\* A module whose default export is val.
Exports(val) == ModuleFile(TRUE, TRUE, val)

\* The modules the parser is exercised on: every shape of export the unwrap
\* sequence distinguishes, and every way of failing.
ParserModules(slot) ==
    { Exports(JSObject(slot, <<>>)),
      Exports(JSFunction(JSObject(slot, <<>>))),
      Exports(JSFunction(JSPromise(JSObject(slot, <<>>)))),
      Exports(JSFunction(JSFunction(JSObject(slot, <<>>)))),
      Exports(JSPromise(JSObject(slot, <<>>))),
      ModuleFile(TRUE, FALSE, JSUndefined),
      ModuleFile(FALSE, FALSE, JSUndefined),
      Exports(JSThrowingFunction),
      Exports(JSFunction(JSRejectedPromise)),
      Exports(JSRejectedPromise) }

\* Modules whose default export is a falsy value.
FalsyDefaults == { Exports(JSNull), Exports(JSFalse), Exports(JSZero), Exports(JSEmptyString) }

\* Modules that yield null, undefined or another falsy value, and one that
\* yields an object.
NullishModules(slot) ==
    { Exports(JSFunction(JSNull)), Exports(JSPromise(JSNull)),
      Exports(JSFunction(JSUndefined)), Exports(JSFunction(JSZero)),
      Exports(JSPromise(JSFalse)), Exports(JSObject(slot, <<>>)) }

ModuleContents(sc, slot) ==
    IF slot.ext = ".js" THEN { Exports(JSObject(slot, <<>>)) }
    ELSE IF sc = "parser" THEN ParserModules(slot) \cup FalsyDefaults
    ELSE IF sc = "strict" THEN ParserModules(slot)
    ELSE IF sc = "cache" THEN { Exports(JSObject(slot, <<>>)) }
    ELSE IF sc \in {"climb", "listing"} THEN { Exports(JSRejectedPromise) }
    ELSE IF sc = "retry" THEN { Exports(JSObject(slot, <<>>)), ModuleFile(FALSE, FALSE, JSUndefined) }
    ELSE IF sc = "probe"
    THEN { Exports(JSObject(slot, <<>>)), Exports(JSFunction(JSNull)), Exports(JSRejectedPromise) }
    ELSE IF sc = "nullish" THEN NullishModules(slot)
    ELSE IF sc = "walk"
    THEN { Exports(JSObject(slot, <<>>)), Exports(JSRejectedPromise), Exports(JSFunction(JSNull)) }
    ELSE { Exports(JSObject(slot, <<>>)), Exports(JSRejectedPromise),
           Exports(JSFunction(JSUndefined)) }

ConfigJsonContents(sc, slot) ==
    IF sc = "cache"
    THEN { JsonFile("strict", JSObject(slot, <<>>)),
           JsonFile("strict", JSObject(slot, [edited |-> JSNull])),
           JsonFile("invalid", JSNull) }
    ELSE IF sc \in {"walk", "climb", "listing"} THEN { JsonFile("strict", JSObject(slot, <<>>)) }
    ELSE IF sc \in {"retry", "probe"}
    THEN { JsonFile("strict", JSObject(slot, <<>>)), JsonFile("invalid", JSNull) }
    ELSE IF sc = "nullish"
    THEN { JsonFile("strict", JSNull), JsonFile("strict", JSFalse),
           JsonFile("strict", JSObject(slot, <<>>)) }
    ELSE IF sc \in {"parser", "strict"}
    THEN { JsonFile("strict", JSObject(slot, <<>>)), JsonFile("lenient", JSObject(slot, <<>>)),
           JsonFile("invalid", JSNull) }
    ELSE { JsonFile("strict", JSObject(slot, <<>>)), JsonFile("lenient", JSObject(slot, <<>>)) }

PackageJsonContents(slot) ==
    { JsonFile("strict", JSObject(slot, [coffiConfig |-> JSObject(slot, <<>>)])),
      JsonFile("strict", JSObject(slot, [coffiConfig |-> JSNull])),
      JsonFile("strict", JSObject(slot, [name |-> JSString("coffi")])),
      JsonFile("invalid", JSNull) }

Contents(sc, slot) ==
    IF slot.base = "." THEN (IF sc = "listing" THEN {Unreadable} ELSE {})
    ELSE IF sc = "cache" /\ slot.dir # ProcessCwd THEN {}
    ELSE IF slot.base = "package"
    THEN (IF sc = "tiers" THEN PackageJsonContents(slot)
          ELSE IF sc \in {"climb", "probe"}
          THEN { JsonFile("strict", JSObject(slot, [coffiConfig |-> JSObject(slot, <<>>)])),
                 JsonFile("strict", JSObject(slot, [name |-> JSString("coffi")])) }
          ELSE {})
    ELSE IF slot.ext = ".json" THEN ConfigJsonContents(sc, slot)
    ELSE IF slot.ext = ".js" /\ sc # "walk" THEN {}
    ELSE ModuleContents(sc, slot)

MaxFiles(sc) == IF sc \in {"walk", "listing"} THEN MaxWalkFiles ELSE MaxTierFiles

Present(files) == { slot \in DOMAIN files : files[slot] # Absent }

Optional(S) == {None} \cup { Some(x) : x \in S }

ExtensionLists(sc) ==
    IF sc \in {"walk", "strict", "cache", "retry", "nullish"}
    THEN Optional({ <<".json", ".ts">> })
    ELSE {None}

PreferredPaths(sc) ==
    IF sc = "walk" THEN {None}
    ELSE IF sc = "retry"
    THEN { Some(join(ProcessCwd, [base |-> "config", ext |-> e])) : e \in {"", ".json"} }
    ELSE IF sc = "parser" THEN Optional({ RelativePath("config", ".ts") })
    ELSE IF sc = "probe" THEN Optional({ RelativePath("config", ".json") })
    ELSE IF sc = "nullish"
    THEN Optional({ join(0, [base |-> "config", ext |-> e]) : e \in {".ts", ".json"} })
    ELSE IF sc \in {"strict", "cache", "climb", "listing"} THEN {None}
    ELSE Optional({ RelativePath("config", ".json"), RelativePath("config", ".ts"),
                    RelativePath("config", "") })

ManifestProperties(sc, v) ==
    IF sc \in {"tiers", "climb", "probe"} /\ v # "index_v1" THEN Optional({"coffiConfig"})
    ELSE {None}

\* cwd is left out (process.cwd()) or names a directory above it; the tiers
\* are exercised from process.cwd() and from the root.
StartDirectories(sc) ==
    IF sc = "walk" THEN Optional(Dirs \ {ProcessCwd})
    ELSE IF sc \in {"climb", "listing"} THEN { Some(d) : d \in Dirs }
    ELSE IF sc \in {"tiers", "strict"} THEN Optional({0})
    ELSE IF sc = "retry" THEN {Some(0)}
    ELSE {None}

\* maxDepth is left out (10) or given.
DepthBounds(sc) ==
    IF sc \in {"walk", "climb"} THEN Optional(0..MaxDepthArg)
    ELSE IF sc = "listing" THEN Optional(1..MaxDepthArg)
    ELSE IF sc \in {"tiers", "strict"} THEN Optional({1})
    ELSE {None}

OptionsOf(sc, v) ==
    [ cwd : StartDirectories(sc),
      maxDepth : DepthBounds(sc),
      preferredPath : PreferredPaths(sc),
      packageJsonProperty : ManifestProperties(sc, v) ]

Calls(sc, v) == [ name : {"config"}, extensions : ExtensionLists(sc), options : OptionsOf(sc, v) ]

\* The characters of the texts handed to cleanJson.
Alphabet == {Quote, ",", " ", "\n", "]", "[", "}", "/", "*"}

\* The texts handed to cleanJson.
Texts == UNION { [1..n -> Alphabet] : n \in 0..MaxLen }

(***************************************************************************)
(* The state machine.                                                      *)
(*   fs      the filesystem                                                *)
(*   mtime   the modification time of each file                            *)
(*   cache   the entries of the result cache                               *)
(*   loop    the loop a call is in, when its iterations are steps          *)
(*   phase   "idle", or "settled" once a call's promise has settled        *)
(*   call    the call made, args the arguments loadConfigInternal received *)
(*   result  how the promise settled: [rejected, config, filepath]         *)
(*   error   the error a rejected promise carries                          *)
(*   log     the tier that ended the call and the probes it made           *)
(***************************************************************************)
InitIn(sc) ==
    /\ variant \in VariantsOf(sc)
    /\ scope = sc
    /\ fs = [slot \in Slots |-> Absent]
    /\ mtime = [slot \in Slots |-> 0]
    /\ cache = {}
    /\ phase = "idle"
    /\ call = None
    /\ args = None
    /\ result = None
    /\ error = None
    /\ log = None
    /\ loop = None

\* The environment writes a file.
WriteFile(slot, content) ==
    /\ phase = "idle"
    /\ fs[slot] = Absent
    /\ Cardinality(Present(fs)) < MaxFiles(scope)
    /\ fs' = [fs EXCEPT ![slot] = content]
    /\ UNCHANGED <<loop, variant, scope, mtime, cache, phase, call, args, result, error, log>>

\* The promise of call c, made with arguments a, settles as outcome says.
SettleAs(c, a, outcome) ==
    /\ phase' = "settled"
    /\ call' = Some(c)
    /\ args' = Some(a)
    /\ result' = Some([ rejected |-> outcome.status = "threw",
                        config |-> outcome.config,
                        filepath |-> outcome.filepath ])
    /\ error' = outcome.error
    /\ log' = Some([tier |-> outcome.tier, events |-> outcome.log])
    /\ UNCHANGED <<loop, variant, scope, fs, mtime, cache>>

Settle(c, a) == SettleAs(c, a, loadConfigInternal(variant, fs, a))

\* await loadConfig(name, extensions, options)
LoadConfigWithName(c) ==
    /\ phase = "idle"
    /\ Settle(c, loadConfigByName(variant, c.name, c.extensions, c.options))

\* await loadConfig({ name, extensions, ...options })
LoadConfigWithOptions(c) ==
    /\ phase = "idle"
    /\ Settle(c, loadConfigByOptions(variant, SpreadOptions(c)))

\* The caller takes the result; the next call may start.
Consume ==
    /\ phase = "settled"
    /\ phase' = "idle"
    /\ call' = None
    /\ args' = None
    /\ result' = None
    /\ error' = None
    /\ log' = None
    /\ loop' = None
    /\ UNCHANGED <<variant, scope, fs, mtime, cache>>

Next ==
    \/ \E slot \in Slots : \E content \in Contents(scope, slot) : WriteFile(slot, content)
    \/ \E c \in Calls(scope, variant) : LoadConfigWithName(c)
    \/ \E c \in Calls(scope, variant) : LoadConfigWithOptions(c)
    \/ Consume

\* The directory walk alone: no preferred path, no manifest property.
SpecWalk == InitIn("walk") /\ [][Next]_vars

\* The three tiers.
SpecTiers == InitIn("tiers") /\ [][Next]_vars

\* The parser: candidates of every shape, found by the preferred path or
\* by the walk.
SpecParser == InitIn("parser") /\ [][Next]_vars

\* The strict variant.
SpecStrict == InitIn("strict") /\ [][Next]_vars

\* The walk among directories that cannot be listed.
SpecListing == InitIn("listing") /\ [][Next]_vars

\* A preferred path below the start directory, with and without extension.
SpecRetry == InitIn("retry") /\ [][Next]_vars

\* The environment modifies a file: new content, a later modification time.
ModifyFile(slot, content) ==
    /\ phase = "idle"
    /\ fs[slot] # Absent
    /\ mtime[slot] < MaxMtime
    /\ fs' = [fs EXCEPT ![slot] = content]
    /\ mtime' = [mtime EXCEPT ![slot] = @ + 1]
    /\ UNCHANGED <<loop, variant, scope, cache, phase, call, args, result, error, log>>

\* The environment deletes a file; a file created there again is a later one.
DeleteFile(slot) ==
    /\ phase = "idle"
    /\ fs[slot] # Absent
    /\ mtime[slot] < MaxMtime
    /\ fs' = [fs EXCEPT ![slot] = Absent]
    /\ mtime' = [mtime EXCEPT ![slot] = @ + 1]
    /\ UNCHANGED <<loop, variant, scope, cache, phase, call, args, result, error, log>>

\* The promise of a call that went through the cache settles as outcome
\* says, the cache being left as entries.
SettleCached(c, a, outcome, entries) ==
    /\ phase' = "settled"
    /\ call' = Some(c)
    /\ args' = Some(a)
    /\ result' = Some([ rejected |-> outcome.status = "threw",
                        config |-> outcome.config,
                        filepath |-> outcome.filepath ])
    /\ error' = outcome.error
    /\ log' = Some([tier |-> outcome.tier, events |-> outcome.log])
    /\ cache' = entries
    /\ UNCHANGED <<loop, variant, scope, fs, mtime>>

\* A hit returns the cached pair.
ReturnCached(c, a, e) == SettleCached(c, a, cachedOutcome(e), cache)

\* A miss resolves afresh and stores a successful result.
ResolveAndStore(c, a, useCache, outcome) ==
    SettleCached(c, a, outcome,
                 cacheWrite(evict(cache, fs, mtime, cacheKey(a), useCache), fs, mtime,
                            cacheKey(a), useCache, outcome))

\* await loadConfig({ name, extensions, ...options, useCache })
LoadConfigCached(c, useCache) ==
    /\ phase = "idle"
    /\ IF cacheHit(cache, fs, mtime, cacheKey(loadConfigByOptions(variant, SpreadOptions(c))),
                   useCache)
       THEN \E e \in cacheGet(cache, cacheKey(loadConfigByOptions(variant, SpreadOptions(c)))) :
                ReturnCached(c @@ [useCache |-> useCache],
                             loadConfigByOptions(variant, SpreadOptions(c)), e)
       ELSE ResolveAndStore(c @@ [useCache |-> useCache],
                            loadConfigByOptions(variant, SpreadOptions(c)), useCache,
                            loadConfigInternal(variant, fs,
                                               loadConfigByOptions(variant, SpreadOptions(c))))

NextCache ==
    \/ \E slot \in Slots : \E content \in Contents(scope, slot) : WriteFile(slot, content)
    \/ \E slot \in Slots : \E content \in Contents(scope, slot) : ModifyFile(slot, content)
    \/ \E slot \in Slots : DeleteFile(slot)
    \/ \E c \in Calls(scope, variant) : \E useCache \in BOOLEAN : LoadConfigCached(c, useCache)
    \/ Consume

\* The loader behind the result cache.
SpecCache == InitIn("cache") /\ [][NextCache]_vars

\* cleanJson(json)
CleanJson(json) ==
    /\ phase = "idle"
    /\ phase' = "settled"
    /\ call' = Some(json)
    /\ args' = None
    /\ result' = Some(cleanJsonText(json))
    /\ error' = None
    /\ log' = Some(JSON_parseText(cleanJsonText(json)))
    /\ UNCHANGED <<loop, variant, scope, fs, mtime, cache>>

\* cleanJson applied to what cleanJson returned.
CleanJsonAgain ==
    /\ phase = "settled"
    /\ IsNone(args)
    /\ call' = result
    /\ args' = call
    /\ result' = Some(cleanJsonText(Get(result)))
    /\ log' = Some(JSON_parseText(cleanJsonText(Get(result))))
    /\ UNCHANGED <<loop, variant, scope, fs, mtime, cache, phase, error>>

NextText ==
    \/ \E json \in Texts : CleanJson(json)
    \/ CleanJsonAgain
    \/ Consume

\* cleanJson on texts.
SpecText == InitIn("text") /\ [][NextText]_vars

(***************************************************************************)
(* The loops that climb the directories, one iteration a step: the while   *)
(* loop of findPackageJson and the while loop of loadConfigInternal.       *)
(***************************************************************************)
\* let currentDir = cwd; let currentDepth = 0; visited lists the
\* directories the iterations examined, events the probes made so far.
Climbing(fn, cwd, events) ==
    [fn |-> fn, currentDir |-> cwd, currentDepth |-> 0, visited |-> <<>>, events |-> events]

\* An iteration has examined currentDir.
examined(l, events) ==
    [l EXCEPT !.visited = Append(@, l.currentDir), !.events = @ \o events]

\* A variant that goes on without leaving the directory.
stayInDirectory(l) == [l EXCEPT !.currentDepth = @ + 1]

\* currentDir = parentDir; currentDepth++;
ascend(l) == [l EXCEPT !.currentDir = dirname(@), !.currentDepth = @ + 1]

\* await loadConfig({ name, extensions, ...options }) up to the first loop:
\* findPackageJson if packageJsonProperty is given, else the walk.
EnterLoadConfig(c, a) ==
    /\ phase = "idle"
    /\ phase' = "running"
    /\ call' = Some(c)
    /\ args' = Some(a)
    /\ loop' = Some(Climbing(IF IsSome(a.packageJsonProperty) THEN "findPackageJson"
                             ELSE "loadConfigInternal", a.cwd, <<>>))
    /\ UNCHANGED <<variant, scope, fs, mtime, cache, result, error, log>>

CallLoadConfig(c) == EnterLoadConfig(c, loadConfigByOptions(variant, SpreadOptions(c)))

\* The loop is left and the call settles as outcome says.
Finish(l, outcome, tier) ==
    /\ phase' = "settled"
    /\ result' = Some([ rejected |-> outcome.status = "threw",
                        config |-> outcome.config,
                        filepath |-> outcome.filepath ])
    /\ error' = outcome.error
    /\ log' = Some([tier |-> tier, events |-> l.events \o outcome.log])
    /\ loop' = Some(l)
    /\ UNCHANGED <<variant, scope, fs, mtime, cache, call, args>>

\* The loop goes on with its next iteration.
Continue(l) ==
    /\ loop' = Some(l)
    /\ UNCHANGED <<variant, scope, fs, mtime, cache, phase, call, args, result, error, log>>

\* findPackageJson has returned packageJsonPath: the manifest is read, and
\* the walk starts unless the manifest ends the call.
AfterFindPackageJson(l, manifest) ==
    IF manifest.status # "none" THEN Finish(l, manifest, "manifest")
    ELSE Continue(Climbing("loadConfigInternal", Get(args).cwd, manifest.log)
                      @@ [searched |-> l.visited])

\* One iteration of the while loop of findPackageJson, the test included.
FindPackageJsonIteration ==
    /\ phase = "running"
    /\ Get(loop).fn = "findPackageJson"
    /\ IF ~(Get(loop).currentDepth < Get(args).maxDepth)
       THEN AfterFindPackageJson(Get(loop),
                manifestAt(variant, fs, None, Get(Get(args).packageJsonProperty)))
       ELSE IF _exists(fs, join(Get(loop).currentDir, [base |-> "package", ext |-> ".json"]))
       THEN AfterFindPackageJson(examined(Get(loop), <<>>),
                manifestAt(variant, fs,
                           Some(join(Get(loop).currentDir, [base |-> "package", ext |-> ".json"])),
                           Get(Get(args).packageJsonProperty)))
       ELSE IF dirname(Get(loop).currentDir) = Get(loop).currentDir
       THEN AfterFindPackageJson(examined(Get(loop), <<>>),
                manifestAt(variant, fs, None, Get(Get(args).packageJsonProperty)))
       ELSE Continue(ascend(examined(Get(loop), <<>>)))

\* The end of an iteration of the walk whose level gave level.
WalkIterationEnd(l, level) ==
    IF level.status # "none" THEN Finish(examined(l, <<>>), level, "walk")
    ELSE IF dirname(l.currentDir) = l.currentDir THEN Finish(examined(l, <<>>), level, "walk")
    ELSE Continue(ascend(examined(l, level.log)))

\* One iteration of the while loop of loadConfigInternal, the test included.
WalkIteration ==
    /\ phase = "running"
    /\ Get(loop).fn = "loadConfigInternal"
    /\ IF ~withinDepth(Get(loop).currentDepth, Get(args).maxDepth)
       THEN Finish(Get(loop), Nothing(<<>>), "walk")
       ELSE WalkIterationEnd(Get(loop),
                scanLevel(variant, fs, Get(args).name, Get(args).extensions,
                          Get(loop).currentDir))

NextClimb ==
    \/ \E slot \in Slots : \E content \in Contents(scope, slot) : WriteFile(slot, content)
    \/ \E c \in Calls(scope, variant) : CallLoadConfig(c)
    \/ FindPackageJsonIteration
    \/ WalkIteration
    \/ Consume

\* The loops iteration by iteration; an iteration that can run does run,
\* every candidate parse returning.
SpecClimb ==
    /\ InitIn("climb")
    /\ [][NextClimb]_vars
    /\ WF_vars(FindPackageJsonIteration)
    /\ WF_vars(WalkIteration)

(***************************************************************************)
(* The attempts of a call one by one.  const config = await                *)
(* parseConfigFile(filepath) starts the attempt of a candidate and         *)
(* suspends loadConfigInternal until the attempt settles; the event loop   *)
(* settles an attempt that is in flight.                                   *)
(***************************************************************************)
\* A file that is there made a file that yields nothing.
Blank(content) ==
    IF content.type = "json" THEN JsonFile("invalid", JSNull)
    ELSE IF content.type = "module" THEN ModuleFile(FALSE, FALSE, JSUndefined)
    ELSE content

Blanked(files) == [slot \in DOMAIN files |-> Blank(files[slot])]

\* The paths of the parse events of a log, in order.
RECURSIVE ParsedOf(_)
ParsedOf(events) ==
    IF events = <<>> THEN <<>>
    ELSE IF events[1].op = "parse" THEN <<events[1].path>> \o ParsedOf(Tail(events))
    ELSE ParsedOf(Tail(events))

\* The candidates of a tier, each with the name of the tier.
InTier(tier, paths) == [k \in 1..Len(paths) |-> [tier |-> tier, path |-> paths[k]]]

\* The candidates loadConfigInternal goes through as long as none ends the
\* call: those that each tier attempts when every file yields nothing.
Plan(v, files, a) ==
    InTier("manifest",
           ParsedOf(manifestTier(v, Blanked(files), a.cwd, a.maxDepth, a.packageJsonProperty).log))
    \o InTier("preferred",
              ParsedOf(preferredTier(v, Blanked(files), a.extensions, a.cwd, a.preferredPath).log))
    \o InTier("walk",
              ParsedOf(walk(v, Blanked(files), a.name, a.extensions, a.cwd, 0, a.maxDepth).log))

\* What the attempt of candidate c makes of the call: package.json ends it
\* with the property, another file with its config, if there is one.
attempt(v, files, a, c) ==
    IF c.tier = "manifest"
    THEN extractProperty(parseConfigFile(v, files, c.path), c.path, Get(a.packageJsonProperty))
    ELSE returnIfUsable(parseConfigFile(v, files, c.path), c.path, Nothing(<<>>))

\* The last candidate of the level of candidate i of the walk.
LastOfLevel(plan, i) ==
    CHOOSE j \in i..Len(plan) :
        /\ plan[j].tier = "walk" /\ plan[j].path.dir = plan[i].path.dir
        /\ \A k \in (j + 1)..Len(plan) : plan[k].path.dir # plan[i].path.dir

\* catch (error) {} of a level of the walk: the for loop over the
\* extensions is left.
leaveLevel(l, i) == [l EXCEPT !.started = LastOfLevel(l.plan, i)]

\* loadConfigInternal stands at an await whose promise has not settled.
suspended(l) == l.inflight # {}

\* The call starts: no attempt yet.
CallProbe(c, a) ==
    /\ phase = "idle"
    /\ phase' = "running"
    /\ call' = Some(c)
    /\ args' = Some(a)
    /\ loop' = Some([fn |-> "probe", plan |-> Plan(variant, fs, a), started |-> 0,
                     inflight |-> {}, history |-> <<>>, events |-> <<>>])
    /\ UNCHANGED <<variant, scope, fs, mtime, cache, result, error, log>>

CallLoadConfigProbed(c) == CallProbe(c, loadConfigByOptions(variant, SpreadOptions(c)))

\* await parseConfigFile(filepath): the attempt of the next candidate starts.
BeginAttempt ==
    /\ phase = "running"
    /\ Get(loop).fn = "probe"
    /\ ~suspended(Get(loop))
    /\ Get(loop).started < Len(Get(loop).plan)
    /\ Continue([Get(loop) EXCEPT
                    !.started = @ + 1,
                    !.inflight = @ \cup {Get(loop).started + 1},
                    !.history = Append(@, [op |-> "start", i |-> Get(loop).started + 1])])

\* The attempt of candidate i has settled as outcome: the call returns, or
\* rejects, or goes on, past the level if the attempt threw in the walk.
Resume(l, i, outcome) ==
    IF outcome.status = "none" THEN Continue(l)
    ELSE IF outcome.status = "threw" /\ l.plan[i].tier = "walk" THEN Continue(leaveLevel(l, i))
    ELSE Finish(l, outcome, l.plan[i].tier)

\* The attempt of candidate i settles.
SettleAttempt(i) ==
    /\ phase = "running"
    /\ Get(loop).fn = "probe"
    /\ i \in Get(loop).inflight
    /\ Resume([Get(loop) EXCEPT !.inflight = @ \ {i},
                                !.history = Append(@, [op |-> "settle", i |-> i])],
              i, attempt(variant, fs, Get(args), Get(loop).plan[i]))

\* return { config: null, filepath: null } after the last candidate.
GiveUp ==
    /\ phase = "running"
    /\ Get(loop).fn = "probe"
    /\ ~suspended(Get(loop))
    /\ Get(loop).started = Len(Get(loop).plan)
    /\ Finish(Get(loop), Nothing(<<>>), "walk")

NextProbe ==
    \/ \E slot \in Slots : \E content \in Contents(scope, slot) : WriteFile(slot, content)
    \/ \E c \in Calls(scope, variant) : CallLoadConfigProbed(c)
    \/ BeginAttempt
    \/ \E i \in 1..(MaxFiles(scope) + 2) : SettleAttempt(i)
    \/ GiveUp
    \/ Consume

\* Calls on files that yield null, undefined or another falsy value.
SpecNullish == InitIn("nullish") /\ [][Next]_vars

\* The attempts of a call one by one.
SpecProbe == InitIn("probe") /\ [][NextProbe]_vars

(***************************************************************************)
(* Vocabulary of the properties.                                           *)
(***************************************************************************)
Settled == phase = "settled"

\* The directory k levels above dir, if there is one.
RECURSIVE Ancestor(_, _)
Ancestor(dir, k) ==
    IF k = 0 THEN Some(dir)
    ELSE IF dirname(dir) = dir THEN None
    ELSE Ancestor(dirname(dir), k - 1)

\* The levels above cwd that exist.
Levels(cwd) == { k \in 0..MaxDir : IsSome(Ancestor(cwd, k)) }

\* The candidate name+ext of directory dir.
Candidate(dir, name, ext) == join(dir, [base |-> name, ext |-> ext])

\* A file is usable when it is there and the parser yields a value of it.
Usable(v, files, p) ==
    /\ _exists(files, p)
    /\ ~parseConfigFile(v, files, p).threw
    /\ parseConfigFile(v, files, p).value # JSNull

\* The positions in extensions whose candidate in dir is usable.
UsableExtensions(v, files, a, dir) ==
    { i \in 1..Len(a.extensions) : Usable(v, files, Candidate(dir, a.name, a.extensions[i])) }

\* The positions in extensions whose candidate in dir is a file.
CandidateExtensions(files, a, dir) ==
    { i \in 1..Len(a.extensions) : _exists(files, Candidate(dir, a.name, a.extensions[i])) }

Min(S) == CHOOSE i \in S : \A j \in S : i <= j

\* The walk tier is reached: no manifest property and no preferred path.
WalkOnly(a) == IsNone(a.packageJsonProperty) /\ IsNone(a.preferredPath)

\* What loadConfig resolves to, or that it rejects.
Returned(outcome) ==
    [rejected |-> outcome.status = "threw", config |-> outcome.config, filepath |-> outcome.filepath]

\* The promise resolved to { config, filepath }.
ResolvedTo(config, filepath) ==
    result = Some([rejected |-> FALSE, config |-> config, filepath |-> filepath])

(***************************************************************************)
(* Properties of the resolution order.                                     *)
(***************************************************************************)
\* Level k is the nearest level with a usable candidate, it has two of them
\* at least, and the walk may reach it.
TwoUsableAtNearestLevel(v, files, a, k) ==
    /\ k \in Levels(a.cwd)
    /\ k < a.maxDepth
    /\ Cardinality(UsableExtensions(v, files, a, Get(Ancestor(a.cwd, k)))) >= 2
    /\ \A j \in 0..(k - 1) : UsableExtensions(v, files, a, Get(Ancestor(a.cwd, j))) = {}

\* The usable candidate of level k whose extension comes first.
EarliestUsable(v, files, a, k) ==
    Candidate(Get(Ancestor(a.cwd, k)), a.name,
              a.extensions[Min(UsableExtensions(v, files, a, Get(Ancestor(a.cwd, k))))])

\* C1: priority property of the directory walk.  When the walk is the tier
\* that decides, and the nearest level holding a usable candidate holds usable
\* candidates for two or more extensions, the call returns the candidate
\* whose extension is earliest in extensions.
C1_PriorityProperty ==
    Settled /\ WalkOnly(Get(args)) =>
        \A k \in Levels(Get(args).cwd) :
            TwoUsableAtNearestLevel(variant, fs, Get(args), k) =>
                /\ ~Get(result).rejected
                /\ Get(result).filepath = Some(EarliestUsable(variant, fs, Get(args), k))

\* C1 holds where every parse failure is caught inside parseConfigFile.
C1_PriorityWhereFailuresAreCaught ==
    variant = "part_003" => C1_PriorityProperty

\* A call of C1's case was made: two usable candidates in one directory, with
\* the default extensions.
C1_Witness ==
    /\ Settled
    /\ WalkOnly(Get(args))
    /\ IsNone(Get(call).extensions)
    /\ \E k \in Levels(Get(args).cwd) : TwoUsableAtNearestLevel(variant, fs, Get(args), k)
    /\ ~Get(result).rejected
    /\ Get(result).filepath # None


(***************************************************************************)
(* Properties of the manifest tier.                                        *)
(***************************************************************************)
PackageJsonOf(dir) == join(dir, [base |-> "package", ext |-> ".json"])

\* The levels within the depth bound whose directory holds a package.json.
ManifestLevels(files, a) ==
    { k \in Levels(a.cwd) : k < a.maxDepth /\ _exists(files, PackageJsonOf(Get(Ancestor(a.cwd, k)))) }

\* The nearest package.json within the depth bound, if there is one.
NearestManifest(files, a) ==
    IF ManifestLevels(files, a) = {} THEN None
    ELSE Some(PackageJsonOf(Get(Ancestor(a.cwd, Min(ManifestLevels(files, a))))))

\* The file is a JSON document with the key.
HoldsKey(file, key) ==
    /\ file.type = "json"
    /\ file.syntax = "strict"
    /\ file.doc.t = "object"
    /\ key \in DOMAIN file.doc.props

\* The request names a property that the nearest package.json holds.
ManifestHit(files, a) ==
    /\ IsSome(a.packageJsonProperty)
    /\ IsSome(NearestManifest(files, a))
    /\ HoldsKey(FileAt(files, Get(NearestManifest(files, a))), Get(a.packageJsonProperty))

\* C2: tier precedence of the manifest.  When packageJsonProperty is set and
\* the nearest package.json holds it as a key, the call resolves to the value
\* of that key with the path of that package.json, whatever preferredPath
\* says and whatever candidate files there are.
C2_ManifestPrecedence ==
    Settled /\ ManifestHit(fs, Get(args)) =>
        ResolvedTo(FileAt(fs, Get(NearestManifest(fs, Get(args)))).doc.props[
                       Get(Get(args).packageJsonProperty)],
                   NearestManifest(fs, Get(args)))

\* The manifest wins over a usable preferred path that is also a usable
\* candidate of the walk.
C2_Witness ==
    /\ Settled
    /\ ManifestHit(fs, Get(args))
    /\ IsSome(Get(args).preferredPath)
    /\ Usable(variant, fs, resolve(Get(args).cwd, Get(Get(args).preferredPath)))
    /\ UsableExtensions(variant, fs, Get(args), Get(args).cwd) # {}
    /\ Get(result).filepath = NearestManifest(fs, Get(args))


(***************************************************************************)
(* Properties of the preferred-path tier.                                  *)
(***************************************************************************)
\* A usable candidate of the walk lies within the depth bound.
UsableCandidateWithinBound(v, files, a) ==
    \E k \in Levels(a.cwd) :
        k < a.maxDepth /\ UsableExtensions(v, files, a, Get(Ancestor(a.cwd, k))) # {}

\* preferredPath is set and the file it names under cwd is missing or unusable.
PreferredPathInvalid(v, files, a) ==
    /\ IsSome(a.preferredPath)
    /\ ~Usable(v, files, resolve(a.cwd, Get(a.preferredPath)))

\* The same request with preferredPath unset.
WithoutPreferredPath(a) == [a EXCEPT !.preferredPath = None]

\* C3: preferred-path fallback.  When preferredPath is missing or unusable
\* and a usable candidate of the walk lies within the depth bound, the call
\* returns what the same request returns with preferredPath unset, and that
\* is neither a rejection nor the not-found result.
C3_PreferredPathFallback ==
    Settled /\ PreferredPathInvalid(variant, fs, Get(args))
            /\ UsableCandidateWithinBound(variant, fs, Get(args)) =>
        /\ ~Get(result).rejected
        /\ Get(result).filepath # None
        /\ Get(result) = Returned(loadConfigInternal(variant, fs, WithoutPreferredPath(Get(args))))

\* C3 holds where every parse failure is caught inside parseConfigFile.
C3_FallbackWhereFailuresAreCaught ==
    variant = "part_003" => C3_PreferredPathFallback

\* A call fell back from an invalid preferred path to a candidate of the walk.
C3_Witness ==
    /\ Settled
    /\ PreferredPathInvalid(variant, fs, Get(args))
    /\ IsNone(Get(args).packageJsonProperty)
    /\ UsableCandidateWithinBound(variant, fs, Get(args))
    /\ Get(log).tier = "walk"
    /\ Get(result).filepath # None


(***************************************************************************)
(* Properties of the depth bound.                                          *)
(***************************************************************************)
\* The usable candidates of all levels, as pairs of level and position.
UsableCandidates(v, files, a) ==
    { c \in Levels(a.cwd) \X (1..Len(a.extensions)) :
        c[2] \in UsableExtensions(v, files, a, Get(Ancestor(a.cwd, c[1]))) }

\* The only usable candidate lies k levels above cwd.
OnlyUsableAt(v, files, a, k) ==
    /\ Cardinality(UsableCandidates(v, files, a)) = 1
    /\ \E c \in UsableCandidates(v, files, a) : c[1] = k

\* The call returned the only usable candidate.
FoundOnlyUsable(v, files, a) ==
    /\ ~Get(result).rejected
    /\ \E c \in UsableCandidates(v, files, a) :
           Get(result).filepath =
               Some(Candidate(Get(Ancestor(a.cwd, c[1])), a.name, a.extensions[c[2]]))

\* No candidate of the levels up to k makes parseConfigFile reject.
NoRejectionUpTo(v, files, a, k) ==
    \A j \in Levels(a.cwd) : \A i \in 1..Len(a.extensions) :
        j <= k => ~parseConfigFile(v, files,
                                   Candidate(Get(Ancestor(a.cwd, j)), a.name, a.extensions[i])).threw

WithinBound(a) == { Get(Ancestor(a.cwd, k)) : k \in { j \in Levels(a.cwd) : j < a.maxDepth } }

\* The directory a probe of the log examines.
Examined(event) == IF event.op = "readdir" THEN event.dir ELSE event.path.dir

\* C5: maxDepth counts the directories examined.  A walk lists directories
\* and parses candidates only in cwd and its first maxDepth - 1 ancestors,
\* and returns no file from elsewhere; with maxDepth = 1 that is cwd alone.
C5_DepthCountsDirectories ==
    Settled /\ WalkOnly(Get(args)) =>
        /\ \A n \in 1..Len(Get(log).events) : Examined(Get(log).events[n]) \in WithinBound(Get(args))
        /\ IsSome(Get(result).filepath) => Get(Get(result).filepath).dir \in WithinBound(Get(args))
        /\ Get(args).maxDepth = 1 =>
               \A n \in 1..Len(Get(log).events) : Examined(Get(log).events[n]) = Get(args).cwd

\* With maxDepth = 1 a usable candidate of the parent directory was not
\* returned.
C5_Witness ==
    /\ Settled
    /\ WalkOnly(Get(args))
    /\ Get(args).maxDepth = 1
    /\ Get(args).cwd = 1
    /\ UsableExtensions(variant, fs, Get(args), 0) # {}
    /\ Get(log).events # <<>>
    /\ ResolvedTo(JSNull, None)


(***************************************************************************)
(* Properties of the result.                                               *)
(***************************************************************************)
\* No file of the filesystem yields a config, and no manifest holds the
\* property asked for.
NothingUsable(v, files, a) ==
    /\ ~ManifestHit(files, a)
    /\ \A slot \in Slots \ { t \in Slots : t.base = "package" } :
           ~Usable(v, files, [abs |-> TRUE, dir |-> slot.dir, base |-> slot.base, ext |-> slot.ext])

\* Some candidate or preferred file is there and fails to load.
SomeFileFails(v, files, a) ==
    \E slot \in Slots : slot.base # "package" /\ files[slot] # Absent

\* C6: permissive not-found outcome.  The call never rejects, and when no
\* tier yields a usable config, there being no matching file or only files
\* that fail to parse or load, it resolves to { config: null, filepath: null }.
C6_PermissiveNotFound ==
    Settled =>
        /\ ~Get(result).rejected
        /\ NothingUsable(variant, fs, Get(args)) => ResolvedTo(JSNull, None)

\* C6 holds where every parse failure is caught inside parseConfigFile.
C6_NotFoundWhereFailuresAreCaught ==
    variant = "part_003" => C6_PermissiveNotFound

\* A call found only files that fail and resolved to the not-found result.
C6_Witness ==
    /\ Settled
    /\ NothingUsable(variant, fs, Get(args))
    /\ SomeFileFails(variant, fs, Get(args))
    /\ Get(log).events # <<>>
    /\ ResolvedTo(JSNull, None)

\* Null or absent.
Unset(val) == val \in {JSNull, JSUndefined}

\* C7 as stated: in every result config is null or absent if and only if
\* filepath is null.
C7_BothOrNeither ==
    Settled /\ ~Get(result).rejected =>
        (Unset(Get(result).config) <=> Get(result).filepath = None)

\* C7 as the code has it: a result without filepath has config null, and a
\* result with a filepath has a config other than null unless the manifest
\* tier produced it; config may be undefined beside a filepath.
C7_NeitherWithoutFilepath ==
    Settled /\ ~Get(result).rejected =>
        /\ Get(result).filepath = None => Get(result).config = JSNull
        /\ Get(result).filepath # None /\ Get(log).tier # "manifest" =>
               Get(result).config # JSNull

\* A manifest property of JSON null was returned with the manifest's path.
C7_Witness ==
    /\ Settled
    /\ Get(log).tier = "manifest"
    /\ Get(result).config = JSNull
    /\ Get(result).filepath # None

\* A producer function returned undefined and the call returned it with the
\* file's path.
C7_WitnessUndefined ==
    /\ Settled
    /\ Get(log).tier # "manifest"
    /\ Get(result).config = JSUndefined
    /\ Get(result).filepath # None

\* The manifest tier yields nothing for the request.
ManifestYieldsNothing(v, files, a) ==
    manifestTier(v, files, a.cwd, a.maxDepth, a.packageJsonProperty).status = "none"

\* preferredPath is set and names a usable file under cwd.
PreferredPathUsable(v, files, a) ==
    /\ IsSome(a.preferredPath)
    /\ Usable(v, files, resolve(a.cwd, Get(a.preferredPath)))

\* C8: preferred-path hit.  When preferredPath is set, the manifest tier
\* yields nothing and the file at resolve(cwd, preferredPath) is usable, the
\* call returns that file's config with the resolved path as filepath, and
\* no candidate of the walk.
C8_PreferredPathHit ==
    Settled /\ ManifestYieldsNothing(variant, fs, Get(args))
            /\ PreferredPathUsable(variant, fs, Get(args)) =>
        ResolvedTo(parseConfigFile(variant, fs,
                                   resolve(Get(args).cwd, Get(Get(args).preferredPath))).value,
                   Some(resolve(Get(args).cwd, Get(Get(args).preferredPath))))

\* C8 holds where preferredPath is resolved against cwd.
C8_HitWhereResolved ==
    variant # "index_v1" => C8_PreferredPathHit

\* A usable preferred path won over a candidate of cwd whose extension comes
\* before its own.
C8_Witness ==
    /\ Settled
    /\ ManifestYieldsNothing(variant, fs, Get(args))
    /\ PreferredPathUsable(variant, fs, Get(args))
    /\ Get(Get(args).preferredPath).ext = ".json"
    /\ Usable(variant, fs, Candidate(Get(args).cwd, Get(args).name, ".ts"))
    /\ Get(args).maxDepth > 0
    /\ Get(result).filepath = Some(resolve(Get(args).cwd, Get(Get(args).preferredPath)))

\* packageJsonProperty is set and no package.json lies within the depth
\* bound, or the nearest one is unparsable or lacks the key.
ManifestMiss(files, a) ==
    /\ IsSome(a.packageJsonProperty)
    /\ ~ManifestHit(files, a)

\* The same request without packageJsonProperty.
WithoutManifestProperty(a) == [a EXCEPT !.packageJsonProperty = None]

C9_WitnessNoManifest ==
    /\ Settled
    /\ ManifestMiss(fs, Get(args))
    /\ IsNone(NearestManifest(fs, Get(args)))
    /\ Get(result).filepath # None

(***************************************************************************)
(* Properties of the call forms.                                           *)
(***************************************************************************)
\* The arguments with the defaults filled in, as the documentation has them.
Defaulted(c) ==
    [ name |-> c.name,
      extensions |-> IF IsNone(c.extensions)
                     THEN <<".ts", ".mts", ".cts", ".js", ".mjs", ".cjs", ".json">>
                     ELSE Get(c.extensions),
      cwd |-> IF IsNone(c.options.cwd) THEN ProcessCwd ELSE Get(c.options.cwd),
      maxDepth |-> IF IsNone(c.options.maxDepth) THEN 10 ELSE Get(c.options.maxDepth),
      preferredPath |-> c.options.preferredPath,
      packageJsonProperty |-> c.options.packageJsonProperty ]

ReturnedFile == FileAt(fs, resolve(ProcessCwd, Get(Get(result).filepath)))

\* The export the loader selects of a module: its default export, or the
\* module itself when there is none.
SelectedExport(file, p) ==
    IF file.hasDefault /\ Truthy(file.default) THEN file.default
    ELSE JSModuleNamespace(SlotOf(resolve(ProcessCwd, p)))

\* What a producer function returns when called once; any other value is
\* taken as it is.
Produced(export) == IF export.t = "function" THEN export.v[1] ELSE export

\* What a promise resolves to; any other value is taken as it is.
Awaited(val) == IF val.t = "promise" THEN val.v[1] ELSE val

\* The call returned a module.
ReturnedModule ==
    /\ Settled
    /\ ~Get(result).rejected
    /\ IsSome(Get(result).filepath)
    /\ ReturnedFile.type = "module"

\* C11: unwrap sequence.  The config returned of a module is the selected
\* export, called once if it is a function, and awaited if what is there
\* then is a promise: never the producer itself, never a promise.
C11_UnwrapSequence ==
    ReturnedModule =>
        /\ Get(result).config =
               Awaited(Produced(SelectedExport(ReturnedFile, Get(Get(result).filepath))))
        /\ Get(result).config.t # "promise"
        /\ Get(result).config # SelectedExport(ReturnedFile, Get(Get(result).filepath))
               \/ SelectedExport(ReturnedFile, Get(Get(result).filepath)).t \notin
                      {"function", "promise"}

\* A module whose producer returns a promise was returned as the value the
\* promise resolves to.
C11_Witness ==
    /\ ReturnedModule
    /\ ReturnedFile.default.t = "function"
    /\ Len(ReturnedFile.default.v) = 1
    /\ ReturnedFile.default.v[1].t = "promise"
    /\ Get(result).config.t = "object"

\* A module whose producer returns a function was returned as that function.
C11_WitnessReturnedFunction ==
    /\ ReturnedModule
    /\ ReturnedFile.default.t = "function"
    /\ Get(result).config.t = "function"


(***************************************************************************)
(* Properties of the strict variant.                                       *)
(***************************************************************************)
\* The levels the walk of a request covers.
WalkedLevels(a) == { k \in Levels(a.cwd) : k < a.maxDepth }

\* The walked levels that hold a file name+ext.
LevelsWithCandidate(files, a) ==
    { k \in WalkedLevels(a) : CandidateExtensions(files, a, Get(Ancestor(a.cwd, k))) # {} }

\* The first existing file name+ext: nearest directory first, then in
\* extension order.
FirstExisting(files, a) ==
    Candidate(Get(Ancestor(a.cwd, Min(LevelsWithCandidate(files, a)))), a.name,
              a.extensions[Min(CandidateExtensions(
                  files, a, Get(Ancestor(a.cwd, Min(LevelsWithCandidate(files, a))))))])

\* The promise rejected with a ConfigLoadError.
RejectedWithConfigLoadError ==
    /\ Get(result).rejected
    /\ IsSome(error)
    /\ Get(error).name = "ConfigLoadError"

\* C12: strict variant, not found.  When the walk ends without a file
\* name+ext existing in a directory it covers, the call rejects with a
\* ConfigLoadError whose message names the name, the extensions and
\* maxDepth; and the strict variant never resolves without a filepath.
C12_StrictNotFound ==
    Settled =>
        /\ LevelsWithCandidate(fs, Get(args)) = {} =>
               /\ RejectedWithConfigLoadError
               /\ Get(error).message.text = "Could not find config file"
               /\ Get(error).message.name = Get(args).name
               /\ Get(error).message.extensions = Get(args).extensions
               /\ Get(error).message.maxDepth = Get(args).maxDepth
        /\ ~Get(result).rejected => IsSome(Get(result).filepath)

\* A walk of one level ended with not found below a directory that holds a
\* candidate.
C12_Witness ==
    /\ Settled
    /\ Get(args).maxDepth = 1
    /\ Get(args).cwd = 1
    /\ CandidateExtensions(fs, Get(args), 0) # {}
    /\ LevelsWithCandidate(fs, Get(args)) = {}
    /\ RejectedWithConfigLoadError

\* The walk ended at the filesystem root with not found.
C12_WitnessRoot ==
    /\ Settled
    /\ Get(args).maxDepth = 10
    /\ LevelsWithCandidate(fs, Get(args)) = {}
    /\ RejectedWithConfigLoadError

\* The file fails to load in the strict variant: text that is no strict
\* JSON, a module whose import throws, a producer that throws, a promise
\* that rejects.
FailsToLoad(file) ==
    \/ file.type = "json" /\ file.syntax # "strict"
    \/ file.type = "module" /\ ~file.loads
    \/ /\ file.type = "module"
       /\ file.loads
       /\ file.hasDefault
       /\ \/ file.default = JSThrowingFunction
          \/ file.default = JSRejectedPromise
          \/ file.default = JSFunction(JSRejectedPromise)

\* C13: strict variant, failure of the selected file.  When the first
\* existing file name+ext fails to load, the call rejects with a
\* ConfigLoadError naming that file, and that file is the only one probed.
C13_StrictSelectedFileFailure ==
    Settled /\ LevelsWithCandidate(fs, Get(args)) # {}
            /\ FailsToLoad(FileAt(fs, FirstExisting(fs, Get(args)))) =>
        /\ RejectedWithConfigLoadError
        /\ Get(error).message.text = "Failed to load config from"
        /\ Get(error).message.filepath = FirstExisting(fs, Get(args))
        /\ Get(log).events = <<ParseEvent(FirstExisting(fs, Get(args)))>>

\* The selected file failed while a later extension or a parent directory
\* held a file that loads.
C13_Witness ==
    /\ Settled
    /\ LevelsWithCandidate(fs, Get(args)) # {}
    /\ FailsToLoad(FileAt(fs, FirstExisting(fs, Get(args))))
    /\ \E slot \in Slots : fs[slot] # Absent /\ ~FailsToLoad(fs[slot])
                           /\ slot.dir <= Get(args).cwd
                           /\ Get(args).cwd - slot.dir < Get(args).maxDepth
    /\ RejectedWithConfigLoadError

(***************************************************************************)
(* C14                                                                     *)
(***************************************************************************)
\* What a call answers when it resolves afresh.
FreshAnswer(outcome) ==
    Some([ rejected |-> outcome.status = "threw",
           config |-> outcome.config,
           filepath |-> outcome.filepath ])

\* What a call answers from an entry of the cache.
CachedAnswer(e) == Some([rejected |-> FALSE, config |-> e.config, filepath |-> Some(e.filepath)])

C14_WitnessModified ==
    /\ phase = "settled"
    /\ Get(call).useCache
    /\ Get(log).tier = "walk"
    /\ IsSome(Get(result).filepath)
    /\ mtime[SlotOf(Get(Get(result).filepath))] > 0
    /\ \E e \in cacheGet(cache, cacheKey(Get(args))) :
           e.capturedMtime = mtime[SlotOf(Get(Get(result).filepath))]

(***************************************************************************)
(* C15                                                                     *)
(***************************************************************************)
\* cleanJson has been applied to what cleanJson returned for original.
CleanedTwice(original) == scope = "text" /\ phase = "settled" /\ args = Some(original)

\* C15: cleanJson applied to what cleanJson returned gives the same text,
\* for every text, those with several trailing commas in a row before a
\* closing brace or bracket included.
C15_Idempotence ==
    scope = "text" /\ phase = "settled" /\ IsSome(args) => result = call

\* cleanJson has been applied twice to a text that ends in two commas and a
\* closing brace.
C15_Witness == \E original \in Texts :
    /\ CleanedTwice(original)
    /\ Len(original) >= 3
    /\ SubSeq(original, Len(original) - 2, Len(original)) = <<",", ",", "}">>

(***************************************************************************)
(* C16                                                                     *)
(***************************************************************************)
\* The string literals of a text, in order: what stands between a quote
\* that is outside every comment and the next quote; a string that is not
\* closed is no literal.
RECURSIVE literalsLoop(_, _, _, _, _)
literalsLoop(json, index, isInsideString, comment, literals) ==
    IF index >= Len(json)
    THEN IF isInsideString THEN SubSeq(literals, 1, Len(literals) - 1) ELSE literals
    ELSE IF isInsideString
    THEN IF json[index + 1] = Quote /\ ~isEscaped(json, index)
         THEN literalsLoop(json, index + 1, FALSE, comment, literals)
         ELSE literalsLoop(json, index + 1, TRUE, comment,
                           [literals EXCEPT ![Len(literals)] = Append(@, json[index + 1])])
    ELSE IF comment = "no" /\ json[index + 1] = Quote
    THEN literalsLoop(json, index + 1, TRUE, comment, Append(literals, <<>>))
    ELSE IF comment = "no" /\ json[index + 1] = "/" /\ charAt(json, index + 1) \in {"/", "*"}
    THEN literalsLoop(json, index + 2, FALSE,
                      IF charAt(json, index + 1) = "/" THEN "single" ELSE "multi", literals)
    ELSE IF comment = "single" /\ json[index + 1] = "\n"
    THEN literalsLoop(json, index + 1, FALSE, "no", literals)
    ELSE IF comment = "multi" /\ json[index + 1] = "*" /\ charAt(json, index + 1) = "/"
    THEN literalsLoop(json, index + 2, FALSE, "no", literals)
    ELSE literalsLoop(json, index + 1, FALSE, comment, literals)

StringLiterals(json) == literalsLoop(json, 0, FALSE, "no", <<>>)

\* cleanJson has been applied to a text once.
Cleaned == scope = "text" /\ phase = "settled" /\ IsNone(args)

\* C16: cleanJson leaves the characters of every string literal as they
\* are, and the text of a valid JSON document parses, once cleaned, to the
\* value it parsed to before.
C16_StringLiteralPreservation ==
    Cleaned =>
        /\ StringLiterals(Get(result)) = StringLiterals(Get(call))
        /\ ( ~JSON_parseText(Get(call)).threw => Get(log) = JSON_parseText(Get(call)) )

\* cleanJson has been applied to a valid JSON document with a string that
\* holds a comma followed by a closing brace or bracket.
C16_Witness ==
    /\ Cleaned
    /\ ~JSON_parseText(Get(call)).threw
    /\ \E i \in 1..Len(StringLiterals(Get(call))) :
           \E j \in 1..(Len(StringLiterals(Get(call))[i]) - 1) :
               /\ StringLiterals(Get(call))[i][j] = ","
               /\ StringLiterals(Get(call))[i][j + 1] \in {"}", "]"}

\* cleanJson has been applied to a valid JSON document with a string that
\* holds the start of a comment.
C16_WitnessCommentLike ==
    /\ Cleaned
    /\ ~JSON_parseText(Get(call)).threw
    /\ \E i \in 1..Len(StringLiterals(Get(call))) :
           StringLiterals(Get(call))[i] \in {<<"/", "/">>, <<"/", "*">>}
    /\ Get(result) = Get(call)

(***************************************************************************)
(* C17                                                                     *)
(***************************************************************************)
\* The paths the call handed to parseConfigFile.
ParsedPaths == { Get(log).events[n].path :
                   n \in { m \in 1..Len(Get(log).events) : Get(log).events[m].op = "parse" } }

\* The file at p is a module that yields a promise which rejects, by its
\* export or by its producer function.
YieldsRejection(files, p) ==
    /\ _exists(files, p)
    /\ FileAt(files, p).type = "module"
    /\ FileAt(files, p).loads
    /\ FileAt(files, p).hasDefault
    /\ \/ FileAt(files, p).default = JSRejectedPromise
       \/ FileAt(files, p).default = JSFunction(JSRejectedPromise)

\* C17: parser boundary.  parseConfigFile rejects for no file handed to it,
\* whatever fails in it, and the permissive loadConfig does not reject.
C17_ParserBoundary ==
    Settled =>
        /\ \A p \in ParsedPaths : ~parseConfigFile(variant, fs, p).threw
        /\ ~Get(result).rejected

\* C17 holds where the produced promise is awaited inside the try block.
C17_BoundaryWhereAwaitedInsideTry ==
    variant = "part_003" => C17_ParserBoundary

\* A file that yields a rejecting promise was handed to parseConfigFile.
C17_Witness ==
    /\ Settled
    /\ \E p \in ParsedPaths : YieldsRejection(fs, p)

(***************************************************************************)
(* C18                                                                     *)
(***************************************************************************)
\* Level k is the nearest level with a usable candidate, and the walk may
\* reach it.
NearestUsableLevel(v, files, a, k) ==
    /\ k \in WalkedLevels(a)
    /\ UsableExtensions(v, files, a, Get(Ancestor(a.cwd, k))) # {}
    /\ \A j \in 0..(k - 1) : UsableExtensions(v, files, a, Get(Ancestor(a.cwd, j))) = {}

\* The positions in extensions whose candidate in dir is a file that is not
\* usable.
UnusableExtensions(v, files, a, dir) ==
    CandidateExtensions(files, a, dir) \ UsableExtensions(v, files, a, dir)

\* In the directory of level k a file that is not usable comes, in the order
\* of extensions, before the first usable one.
UnusableBeforeUsable(v, files, a, k) ==
    \E i \in UnusableExtensions(v, files, a, Get(Ancestor(a.cwd, k))) :
        i < Min(UsableExtensions(v, files, a, Get(Ancestor(a.cwd, k))))

\* All the candidates of a level below k that are files are not usable, and
\* there is one.
UnusableLevelBelow(v, files, a, k) ==
    \E j \in 0..(k - 1) : UnusableExtensions(v, files, a, Get(Ancestor(a.cwd, j))) # {}

\* C18: fall-through on an unusable candidate.  When the walk decides and
\* a file that is not usable comes before the first usable file of its
\* directory, or fills a nearer directory alone, the call returns the first
\* usable file of the nearest directory that has one.
C18_FallThrough ==
    Settled /\ WalkOnly(Get(args)) =>
        \A k \in Levels(Get(args).cwd) :
            /\ NearestUsableLevel(variant, fs, Get(args), k)
            /\ \/ UnusableBeforeUsable(variant, fs, Get(args), k)
               \/ UnusableLevelBelow(variant, fs, Get(args), k)
            => /\ ~Get(result).rejected
               /\ Get(result).filepath = Some(EarliestUsable(variant, fs, Get(args), k))

\* C18 holds where every parse failure is caught inside parseConfigFile.
C18_FallThroughWhereFailuresAreCaught ==
    variant = "part_003" => C18_FallThrough

\* A call walked a directory where a file that is not usable comes before a
\* usable one.
C18_Witness ==
    /\ Settled
    /\ WalkOnly(Get(args))
    /\ \E k \in Levels(Get(args).cwd) :
           /\ NearestUsableLevel(variant, fs, Get(args), k)
           /\ UnusableBeforeUsable(variant, fs, Get(args), k)

(***************************************************************************)
(* C19                                                                     *)
(***************************************************************************)
\* Directory above is dir or lies above it.
AtOrAbove(dir, above) == \E j \in 0..MaxDir : Ancestor(dir, j) = Some(above)

\* The probes of the log go upward only: none examines a directory below
\* the directory of an earlier one.
LevelByLevel(events) ==
    \A m, n \in 1..Len(events) :
        m < n => AtOrAbove(Examined(events[m]), Examined(events[n]))

\* A farther level than k holds a usable candidate.
UsableFarther(v, files, a, k) ==
    \E j \in Levels(a.cwd) :
        j > k /\ UsableExtensions(v, files, a, Get(Ancestor(a.cwd, j))) # {}

\* C19: level before extension.  The walk probes directory by directory,
\* never returning to a nearer one, and when a nearer and a farther
\* directory both hold a usable candidate the call returns a file of the
\* nearer one, whatever the extensions.
C19_LevelBeforeExtension ==
    Settled /\ WalkOnly(Get(args)) =>
        /\ LevelByLevel(Get(log).events)
        /\ \A k \in Levels(Get(args).cwd) :
               /\ NearestUsableLevel(variant, fs, Get(args), k)
               /\ UsableFarther(variant, fs, Get(args), k)
               => /\ ~Get(result).rejected
                  /\ IsSome(Get(result).filepath)
                  /\ Get(Get(result).filepath).dir = Get(Ancestor(Get(args).cwd, k))

\* C19 holds where every parse failure is caught inside parseConfigFile.
C19_LevelBeforeExtensionWhereFailuresAreCaught ==
    variant = "part_003" => C19_LevelBeforeExtension

\* The walk probes directory by directory in every variant.
C19_ProbesLevelByLevel ==
    Settled /\ WalkOnly(Get(args)) => LevelByLevel(Get(log).events)

\* With the default extensions, config.json of the start directory was
\* returned though config.ts of the parent directory is usable.
C19_Witness ==
    /\ Settled
    /\ WalkOnly(Get(args))
    /\ IsNone(Get(call).extensions)
    /\ Get(args).cwd = 1
    /\ Usable(variant, fs, Candidate(0, "config", ".ts"))
    /\ Usable(variant, fs, Candidate(1, "config", ".json"))
    /\ ~Get(result).rejected
    /\ Get(result).filepath = Some(Candidate(1, "config", ".json"))

(***************************************************************************)
(* C20                                                                     *)
(***************************************************************************)
\* The directories start at cwd and each is the parent of the one before
\* it and differs from it.
AscendingChain(visited, cwd) ==
    /\ Len(visited) > 0 => visited[1] = cwd
    /\ \A i \in 1..(Len(visited) - 1) :
           /\ visited[i + 1] = dirname(visited[i])
           /\ visited[i + 1] # visited[i]

\* The levels a loop from cwd may examine: maxDepth of them, or those down
\* from the root if they are fewer.
LevelsToExamine(a) == Cardinality(WalkedLevels(a))

\* The loop in progress keeps to the chain and to the bound, and the next
\* iteration is to examine the directory above the last one examined.
ClimbsInOrder(l, a) ==
    /\ AscendingChain(l.visited, a.cwd)
    /\ Len(l.visited) <= a.maxDepth
    /\ Len(l.visited) <= LevelsToExamine(a)
    /\ phase = "running" =>
           /\ l.currentDepth = Len(l.visited)
           /\ AscendingChain(Append(l.visited, l.currentDir), a.cwd)

\* A loop that ended with nothing examined all the levels it may examine.
EndedAtBoundOrRoot(l, a) ==
    /\ phase = "settled" /\ ResolvedTo(JSNull, None) => Len(l.visited) = LevelsToExamine(a)
    /\ "searched" \in DOMAIN l =>
           /\ AscendingChain(l.searched, a.cwd)
           /\ Len(l.searched) <= LevelsToExamine(a)

\* The call is in one of its loops, or has left them.
InLoop == scope = "climb" /\ IsSome(loop)

\* C20: termination and monotonic walk.  The directories the while loops of
\* findPackageJson and of loadConfigInternal examine form a chain that
\* ascends from cwd, each the parent of the one before and another than it,
\* of maxDepth directories at most and ending at the root at the latest;
\* and every call that has started settles.
C20_TerminationAndMonotonicWalk ==
    /\ [](InLoop => /\ ClimbsInOrder(Get(loop), Get(args))
                    /\ EndedAtBoundOrRoot(Get(loop), Get(args)))
    /\ (phase = "running") ~> (phase = "settled")

\* A walk that followed findPackageJson has ended at the root after both
\* loops examined two directories.
C20_Witness ==
    /\ InLoop
    /\ phase = "settled"
    /\ "searched" \in DOMAIN Get(loop)
    /\ Len(Get(loop).searched) = 2
    /\ Len(Get(loop).visited) = 2
    /\ Get(loop).visited[2] = 0
    /\ Get(args).maxDepth > 2

\* A walk has ended at the bound below the root.
C20_WitnessBound ==
    /\ InLoop
    /\ phase = "settled"
    /\ ResolvedTo(JSNull, None)
    /\ Get(args).maxDepth > 0
    /\ Len(Get(loop).visited) = Get(args).maxDepth
    /\ Get(loop).visited[Len(Get(loop).visited)] # 0

\* What the iterations arrive at is what loadConfigInternal computes at once.
IterationsAgree ==
    InLoop /\ phase = "settled" =>
        /\ result = Some(Returned(loadConfigInternal(variant, fs, Get(args))))
        /\ Get(log).events = loadConfigInternal(variant, fs, Get(args)).log
        /\ Get(log).tier = loadConfigInternal(variant, fs, Get(args)).tier

(***************************************************************************)
(* C21                                                                     *)
(***************************************************************************)
\* The filesystem with every directory that cannot be listed made an empty
\* directory that can.
Emptied(files) ==
    [slot \in DOMAIN files |-> IF listingFails(files, slot.dir) THEN Absent ELSE files[slot]]

\* The walked levels whose directory cannot be listed.
UnlistedLevels(files, a) ==
    { k \in WalkedLevels(a) : listingFails(files, Get(Ancestor(a.cwd, k))) }

\* C21: directory-listing errors are local.  When the walk decides, the
\* call does not reject, returns no file of a directory that cannot be
\* listed, and returns and probes what it would with every such directory
\* empty: the level counts as one without matches, and the walk goes on
\* to the parent with the same count of levels.
C21_ListingErrorsAreLocal ==
    Settled /\ WalkOnly(Get(args)) /\ variant # "index_v1" =>
        /\ ~Get(result).rejected
        /\ IsSome(Get(result).filepath) => ~listingFails(fs, Get(Get(result).filepath).dir)
        /\ result = Some(Returned(loadConfigInternal(variant, Emptied(fs), Get(args))))
        /\ Get(log).events = loadConfigInternal(variant, Emptied(fs), Get(args)).log

\* The start directory cannot be listed and holds a candidate that would be
\* usable; the usable candidate of its parent was returned.
C21_Witness ==
    /\ Settled
    /\ WalkOnly(Get(args))
    /\ Get(args).cwd = 1
    /\ 0 \in UnlistedLevels(fs, Get(args))
    /\ Usable(variant, fs, Candidate(1, "config", ".json"))
    /\ ~Get(result).rejected
    /\ Get(result).filepath = Some(Candidate(0, "config", ".json"))

(***************************************************************************)
(* C22                                                                     *)
(***************************************************************************)
\* resolve(cwd, preferredPath) of a request that has a preferredPath.
ResolvedPath(a) == resolve(a.cwd, Get(a.preferredPath))

\* The positions in extensions whose extension makes the resolved path a
\* usable file.
UsableRetries(v, files, a) ==
    { i \in 1..Len(a.extensions) : Usable(v, files, withExt(ResolvedPath(a), a.extensions[i])) }

\* The preferred-path tier is reached and the exact path is not usable.
ExactPathUnusable(v, files, a) ==
    /\ IsSome(a.preferredPath)
    /\ IsNone(a.packageJsonProperty)
    /\ ~Usable(v, files, ResolvedPath(a))

\* C22: extension retry for a preferred path without extension.  When the
\* exact path is not usable and has no extension, the call returns the path
\* with the first extension, in the order of extensions, that makes it a
\* usable file; when none does, or when the path has an extension, the
\* preferred-path tier returns nothing and the call returns what the walk
\* returns.
C22_ExtensionRetry ==
    Settled /\ ExactPathUnusable(variant, fs, Get(args)) =>
        IF extname(ResolvedPath(Get(args))) = "" /\ UsableRetries(variant, fs, Get(args)) # {}
        THEN /\ ~Get(result).rejected
             /\ Get(result).filepath =
                    Some(withExt(ResolvedPath(Get(args)),
                                 Get(args).extensions[Min(UsableRetries(variant, fs, Get(args)))]))
             /\ Get(log).tier = "preferred"
        ELSE /\ Get(log).tier = "walk"
             /\ Get(result) =
                    Returned(loadConfigInternal(variant, fs, WithoutPreferredPath(Get(args))))

\* C22 holds where the retry is written.
C22_RetryWhereWritten ==
    variant = "part_003" => C22_ExtensionRetry

\* A preferred path without extension names no file, and the path with an
\* extension is a usable file in a directory the walk does not cover.
C22_Witness ==
    /\ Settled
    /\ ExactPathUnusable(variant, fs, Get(args))
    /\ extname(ResolvedPath(Get(args))) = ""
    /\ UsableRetries(variant, fs, Get(args)) # {}
    /\ ResolvedPath(Get(args)).dir # Get(args).cwd

\* A preferred path with an extension is not usable, the same path with
\* another extension is, and the call returned what the walk returns.
C22_WitnessNotRetried ==
    /\ Settled
    /\ ExactPathUnusable(variant, fs, Get(args))
    /\ extname(ResolvedPath(Get(args))) = ".json"
    /\ Usable(variant, fs, withExt(ResolvedPath(Get(args)), ".ts"))
    /\ Get(log).tier = "walk"

(***************************************************************************)
(* C23                                                                     *)
(***************************************************************************)
\* The default export of a module if it has one, whatever its value, and
\* the module itself if it has none.
DefaultIfPresent(file, p) ==
    IF file.hasDefault THEN file.default ELSE JSModuleNamespace(SlotOf(resolve(ProcessCwd, p)))

\* C23: default-export selection.  The config returned of a module comes of
\* its default export whenever it has one, and of the module itself only
\* when it has none.
C23_DefaultExportSelection ==
    ReturnedModule =>
        Get(result).config =
            Awaited(Produced(DefaultIfPresent(ReturnedFile, Get(Get(result).filepath))))

\* C23 holds of the modules whose default export is truthy or missing.
C23_SelectionOfTruthyDefault ==
    ReturnedModule /\ (ReturnedFile.hasDefault => Truthy(ReturnedFile.default)) =>
        Get(result).config =
            Awaited(Produced(DefaultIfPresent(ReturnedFile, Get(Get(result).filepath))))

\* A module whose default export is falsy was returned.
C23_Witness ==
    /\ ReturnedModule
    /\ ReturnedFile.hasDefault
    /\ ReturnedFile.default \in {JSFalse, JSZero, JSEmptyString, JSNull}

\* A module without default export was returned as the module itself.
C23_WitnessNoDefault ==
    /\ ReturnedModule
    /\ ~ReturnedFile.hasDefault
    /\ Get(result).config.t = "namespace"


(***************************************************************************)
(* Properties of the order of the attempts.                                *)
(***************************************************************************)
\* A call is going through its candidates, or has done so.
Probing == IsSome(loop) /\ Get(loop).fn = "probe"

\* The candidates of the walk from level k and extension i on: nearest
\* level first, and in extension order within a level.
RECURSIVE WalkCandidates(_, _, _, _)
WalkCandidates(files, a, k, i) ==
    IF k \notin WalkedLevels(a) THEN <<>>
    ELSE IF i > Len(a.extensions) THEN WalkCandidates(files, a, k + 1, 1)
    ELSE (IF i \in CandidateExtensions(files, a, Get(Ancestor(a.cwd, k)))
          THEN <<Candidate(Get(Ancestor(a.cwd, k)), a.name, a.extensions[i])>>
          ELSE <<>>) \o WalkCandidates(files, a, k, i + 1)

\* The manifest, if the call names a property and there is a package.json.
ManifestCandidate(files, a) ==
    IF IsSome(a.packageJsonProperty) /\ IsSome(NearestManifest(files, a))
    THEN <<Get(NearestManifest(files, a))>>
    ELSE <<>>

\* The preferred path, if the call names one.
PreferredCandidate(a) == IF IsSome(a.preferredPath) THEN <<ResolvedPath(a)>> ELSE <<>>

\* The fixed order: manifest, preferred path, walk.
FixedOrder(files, a) ==
    ManifestCandidate(files, a) \o PreferredCandidate(a) \o WalkCandidates(files, a, 0, 1)

\* The paths of the candidates of a plan.
PathsOf(plan) == [k \in 1..Len(plan) |-> plan[k].path]

\* The tiers of a plan come in the order manifest, preferred, walk.
TierRank(tier) == CASE tier = "manifest" -> 1 [] tier = "preferred" -> 2 [] tier = "walk" -> 3

TiersInOrder(plan) ==
    \A j, k \in 1..Len(plan) : j < k => TierRank(plan[j].tier) <= TierRank(plan[k].tier)

\* Every attempt is started and then settled before another one is started,
\* and the attempts go forward in the order of the plan.
OneByOne(history) ==
    \A k \in 1..Len(history) :
        /\ k % 2 = 1 => history[k].op = "start"
        /\ k % 2 = 0 => history[k] = [op |-> "settle", i |-> history[k - 1].i]
        /\ k % 2 = 1 /\ k > 2 => history[k].i > history[k - 2].i

\* The candidates of plan whose attempt yields a config.
UsableAttempts(v, files, a, plan) ==
    { i \in 1..Len(plan) : attempt(v, files, a, plan[i]).status = "found" }

\* Every attempt that was followed by another one had yielded no config.
EarlierYieldNothing(v, files, a, l) ==
    \A k \in 1..(Len(l.history) - 1) :
        l.history[k].op = "settle" => l.history[k].i \notin UsableAttempts(v, files, a, l.plan)

\* The settled call has the outcome of the first candidate in order whose
\* attempt yields a config, and null when there is none.
FirstInOrder(v, files, a, plan) ==
    IF UsableAttempts(v, files, a, plan) = {} THEN ResolvedTo(JSNull, None)
    ELSE result = Some(Returned(attempt(v, files, a,
                                        plan[Min(UsableAttempts(v, files, a, plan))])))

\* The attempts of the call are made one at a time and in the fixed order,
\* each after the one before has settled without a config.
OneAtATimeInOrder(v, files, a, l) ==
    /\ Cardinality(l.inflight) <= 1
    /\ PathsOf(l.plan) = FixedOrder(files, a)
    /\ TiersInOrder(l.plan)
    /\ OneByOne(l.history)
    /\ EarlierYieldNothing(v, files, a, l)

\* C24: strictly sequential probing.  Within one call at most one attempt is
\* in flight; the candidates are attempted in the order manifest, preferred
\* path, walk by level and extension; an attempt starts only after the one
\* before has settled without a config; and the call returns the first
\* candidate in that order that yields a config, not the first to settle.
C24_SequentialProbing ==
    Probing =>
        /\ OneAtATimeInOrder(variant, fs, Get(args), Get(loop))
        /\ Settled => FirstInOrder(variant, fs, Get(args), Get(loop).plan)

\* The attempts are made one at a time and in the fixed order in every
\* variant.
C24_OneAtATime == Probing => OneAtATimeInOrder(variant, fs, Get(args), Get(loop))

\* C24 holds where every parse failure is caught inside parseConfigFile.
C24_SequentialProbingWhereFailuresAreCaught == variant = "part_003" => C24_SequentialProbing

\* The call as a sequence of attempts settles as the call as a whole.
ProbedAsWhole ==
    Probing /\ Settled => result = Some(Returned(loadConfigInternal(variant, fs, Get(args))))

\* A call has returned its third candidate after two that yielded nothing,
\* an earlier tier among them.
C24_Witness ==
    /\ Probing
    /\ Settled
    /\ IsSome(Get(args).preferredPath)
    /\ Len(Get(loop).history) = 6
    /\ UsableAttempts(variant, fs, Get(args), Get(loop).plan) # {}
    /\ Min(UsableAttempts(variant, fs, Get(args), Get(loop).plan)) = 3
    /\ ResolvedTo(parseConfigFile(variant, fs, Get(loop).plan[3].path).value,
                  Some(Get(loop).plan[3].path))

\* An attempt is in flight while the call is suspended on it.
C24_WitnessInFlight ==
    /\ Probing
    /\ Get(loop).inflight = {2}
    /\ Len(Get(loop).plan) >= 3


(***************************************************************************)
(* Properties of the values null, undefined and falsy.                     *)
(***************************************************************************)
\* The value a file holds: the document of a JSON file, and of a module the
\* default export, called if it is a producer and awaited if it is a promise.
LoadedValue(file) ==
    IF file.type = "json" THEN file.doc ELSE Awaited(Produced(file.default))

\* The file is there, is read or loaded without failure, and what it holds
\* is null.
YieldsNull(file) ==
    /\ file.type \in {"json", "module"}
    /\ file.type = "json" => file.syntax = "strict"
    /\ file.type = "module" => file.loads /\ file.hasDefault /\ Truthy(file.default)
    /\ LoadedValue(file) = JSNull

\* The filesystem with every file that yields null made a file that fails
\* to parse or to load.
NullsMadeFailures(files) ==
    [slot \in DOMAIN files |-> IF YieldsNull(files[slot]) THEN Blank(files[slot]) ELSE files[slot]]

\* The values that are falsy and not null.
FalsyNotNull == {JSUndefined, JSFalse, JSZero, JSEmptyString}

\* Candidate i of order is a file that holds a falsy value other than null,
\* and the candidates before it are absent or yield null.
FirstHoldsFalsy(files, order, i) ==
    /\ FileAt(files, order[i]) # Absent
    /\ LoadedValue(FileAt(files, order[i])) \in FalsyNotNull
    /\ \A j \in 1..(i - 1) :
           FileAt(files, order[j]) = Absent \/ YieldsNull(FileAt(files, order[j]))

\* The file the call returned yields null.
ReturnedNull == IsSome(Get(result).filepath) /\ YieldsNull(ReturnedFile)

\* The call settled as it would with failing files in place of those that
\* yield null.
AsIfFailed(v, files, a) == result = Some(Returned(loadConfigInternal(v, NullsMadeFailures(files), a)))

\* The call returned the first candidate that holds a falsy value other
\* than null, if no candidate that holds more comes before it.
FalsyReturned(files, order) ==
    \A i \in 1..Len(order) :
        FirstHoldsFalsy(files, order, i) =>
            ResolvedTo(LoadedValue(FileAt(files, order[i])), Some(order[i]))

\* C25: a candidate whose loaded value is null (a JSON document null, a
\* producer that returns null, a promise that resolves to null) is never
\* returned, and the call goes on as if the file had failed to parse;
\* a candidate that yields undefined or another falsy value that is not
\* null is returned with its filepath.
C25_NullIsUnusable ==
    Settled =>
        /\ ~ReturnedNull
        /\ AsIfFailed(variant, fs, Get(args))
        /\ FalsyReturned(fs, FixedOrder(fs, Get(args)))

\* A call went past a file that yields null and returned a file that holds
\* a falsy value.
C25_Witness ==
    /\ Settled
    /\ \E slot \in Slots : YieldsNull(fs[slot])
    /\ NullsMadeFailures(fs) # fs
    /\ Len(FixedOrder(fs, Get(args))) >= 2
    /\ YieldsNull(FileAt(fs, FixedOrder(fs, Get(args))[1]))
    /\ FirstHoldsFalsy(fs, FixedOrder(fs, Get(args)), 2)
    /\ Get(result).config \in FalsyNotNull

====
